---- MODULE Spec2Model ----
(***************************************************************************)
(* A model of repogen (github.com/ralt/repogen): the package identity and  *)
(* conflict detection of internal/utils, the file reconciliation helpers,  *)
(* the Debian, RPM and Alpine generators with their readers of published   *)
(* metadata, and the generate command that drives them.                    *)
(*                                                                         *)
(* Strings of the program are TLA+ strings, joined with \o as fmt.Sprintf  *)
(* joins them.  A path is the sequence of its components.  The content of  *)
(* a file is a record; a hash is modelled as injective on contents, and    *)
(* the empty checksum string "" is the empty tuple.                        *)
(***************************************************************************)
EXTENDS Naturals, Sequences, FiniteSets, TLC

VARIABLES
    fs,     \* the disk: a function from the paths of existing files to contents
    clock,  \* time.Now(), advanced by every generation
    pc,     \* position of the operation in progress
    args,   \* inputs of the operation in progress
    ret     \* what the operation returned

vars == <<fs, clock, pc, args, ret>>

(***************************************************************************)
(* Bounds of the model.                                                    *)
(***************************************************************************)
MaxMergeLen == 2

MaxFileLen == 1

\* the runs of the generate command on one output directory
MaxRuns == 2

(***************************************************************************)
(* Sequence helpers.                                                       *)
(***************************************************************************)
SeqsUpTo(S, n) == UNION {[1..k -> S] : k \in 0..n}

Range(s) == {s[i] : i \in DOMAIN s}

(***************************************************************************)
(* Paths.  An absolute path starts with the component "/"; any other path  *)
(* is relative to the working directory of the process.                    *)
(***************************************************************************)
Root == "/"

Cwd == <<Root, "work">>

IsAbs(p) == p # <<>> /\ p[1] = Root

\* filepath.Clean: "." components drop out
Clean(p) == SelectSeq(p, LAMBDA c : c # ".")

\* filepath.Join: the elements are joined with a separator and cleaned, so an
\* absolute second element ends up below the first
Join(a, b) == Clean(a \o SelectSeq(b, LAMBDA c : c # Root))

\* filepath.Base
Base(p) == IF p = <<>> THEN "." ELSE p[Len(p)]

\* filepath.Dir
Dir(p) == IF Len(p) <= 1 THEN p ELSE SubSeq(p, 1, Len(p) - 1)

\* the file a path names, as the operating system resolves it
Resolve(p) == IF IsAbs(p) THEN Clean(p) ELSE Clean(Cwd \o p)

IsPrefix(a, b) == Len(a) <= Len(b) /\ SubSeq(b, 1, Len(a)) = a

\* filepath.Rel(base, target) for a target below base
Rel(base, target) ==
    IF IsPrefix(Clean(base), Clean(target))
    THEN SubSeq(Clean(target), Len(Clean(base)) + 1, Len(Clean(target)))
    ELSE Clean(target)

(***************************************************************************)
(* The disk.  fsys is a function from the absolute paths of the files that *)
(* exist to their contents.  faults names the paths on which stat fails    *)
(* with an error other than "not exist" and those that cannot be opened.   *)
(***************************************************************************)
EmptyFs == [p \in {} |-> [kind |-> "raw", bytes |-> <<>>]]

NoFaults == [stat |-> {}, open |-> {}]

Exists(fsys, p) == Resolve(p) \in DOMAIN fsys

Read(fsys, p) == fsys[Resolve(p)]

Put(fsys, p, data) ==
    [q \in DOMAIN fsys \cup {Resolve(p)} |-> IF q = Resolve(p) THEN data ELSE fsys[q]]

Remove(fsys, gone) == [q \in DOMAIN fsys \ gone |-> fsys[q]]

Raw(bytes) == [kind |-> "raw", bytes |-> bytes]

\* os.Stat: "ok", "notexist" (os.IsNotExist) or "error"
Stat(fsys, faults, p) ==
    IF Resolve(p) \in faults.stat THEN "error"
    ELSE IF Exists(fsys, p) THEN "ok" ELSE "notexist"

\* the length in bytes of a file's content
SizeOf(content) ==
    CASE content.kind = "raw" -> Len(content.bytes)
      [] content.kind = "Packages" -> Len(content.entries)
      [] content.kind = "gz" -> 1
      [] content.kind \in {"deb", "rpm", "apk"} -> 3 + content.build
      [] OTHER -> 2

Hash(alg, content) == <<alg, content>>

NoErr == ""

\* the empty checksum string
NoSum == <<>>

(***************************************************************************)
(* utils.CalculateChecksums: the four digests and the size of a file.      *)
(***************************************************************************)
CalculateChecksums(fsys, faults, path) ==
    IF ~Exists(fsys, path) \/ Resolve(path) \in faults.open
    THEN [err |-> "open", MD5 |-> NoSum, SHA1 |-> NoSum, SHA256 |-> NoSum,
          SHA512 |-> NoSum, Size |-> 0]
    ELSE LET c == Read(fsys, path)
         IN [err |-> NoErr, MD5 |-> Hash("md5", c), SHA1 |-> Hash("sha1", c),
             SHA256 |-> Hash("sha256", c), SHA512 |-> Hash("sha512", c),
             Size |-> SizeOf(c)]

\* utils.EnsureDir, os.MkdirAll: it fails when the path, or a path above it,
\* is a file
EnsureDir(fsys, path) ==
    IF \E n \in 1..Len(Resolve(path)) : SubSeq(Resolve(path), 1, n) \in DOMAIN fsys
    THEN "not a directory"
    ELSE NoErr

(***************************************************************************)
(* utils.CopyFile: os.MkdirAll of the directory of dst, os.Open(src), then  *)
(* os.Create(dst), which truncates dst, then io.Copy.  The result is the   *)
(* disk and the error.                                                     *)
(***************************************************************************)
CopyFile(fsys, src, dst) ==
    IF EnsureDir(fsys, Dir(dst)) # NoErr
    THEN [fs |-> fsys, err |-> "mkdir"]
    ELSE IF ~Exists(fsys, src)
    THEN [fs |-> fsys, err |-> "open"]
    ELSE IF Resolve(src) = Resolve(dst)
         THEN [fs |-> Put(fsys, dst, Raw(<<>>)), err |-> NoErr]
         ELSE [fs |-> Put(fsys, dst, Read(fsys, src)), err |-> NoErr]

\* utils.WriteFile
WriteFile(fsys, path, data) == Put(fsys, path, data)

(***************************************************************************)
(* models.Package.  Metadata is the map of type-specific extras: a         *)
(* function from the keys present to their (string) values.                *)
(***************************************************************************)
NoMetadata == [k \in {} |-> ""]

Package(name, version, arch, metadata, filename) ==
    [Name |-> name, Version |-> version, Architecture |-> arch,
     Description |-> "", Filename |-> filename, Size |-> 0,
     MD5Sum |-> NoSum, SHA1Sum |-> NoSum, SHA256Sum |-> NoSum,
     SHA512Sum |-> NoSum, Metadata |-> metadata]

TypeDeb == "deb"
TypeRpm == "rpm"
TypeApk == "apk"
TypeHomebrewBottle == "brew"
TypePacman == "pacman"

PackageTypes == {TypeDeb, TypeRpm, TypeApk, TypeHomebrewBottle, TypePacman}

(***************************************************************************)
(* utils.ShouldCopyPackage: the source is looked for at pkg.Filename as    *)
(* given and then below outputDir; a source found nowhere is nothing to    *)
(* copy.  A found source is copied when the destination is another path    *)
(* and is absent, has another size, or (when the package records a SHA256) *)
(* has another SHA256 than the recorded one.                               *)
(***************************************************************************)
CopyResult(srcPath, dstPath, needsCopy, err) ==
    [srcPath |-> srcPath, dstPath |-> dstPath, needsCopy |-> needsCopy, err |-> err]

ShouldCopyPackageNoFallback(pkg, dstPath0, outputDir0, fsys, faults) ==
    LET dstPath == Clean(dstPath0)
        srcPath == Clean(pkg.Filename)
    IN IF Stat(fsys, faults, srcPath) # "ok"
       THEN CopyResult(srcPath, dstPath, FALSE, NoErr)
       ELSE CopyResult(srcPath, dstPath, srcPath # dstPath, NoErr)

ShouldCopyPackageSizeOnly(pkg, dstPath0, outputDir0, fsys, faults) ==
    LET dstPath == Clean(dstPath0)
        outputDir == Clean(outputDir0)
        asGiven == Clean(pkg.Filename)
        isNewPackage == Stat(fsys, faults, asGiven) = "ok"
        srcPath == IF isNewPackage THEN asGiven
                   ELSE Clean(Join(outputDir, pkg.Filename))
        srcStat == Stat(fsys, faults, srcPath)
        dstStat == Stat(fsys, faults, dstPath)
    IN IF ~isNewPackage /\ srcStat = "notexist"
       THEN CopyResult(srcPath, dstPath, FALSE, NoErr)
       ELSE IF ~isNewPackage /\ srcStat = "error"
       THEN CopyResult(srcPath, dstPath, FALSE, "cannot stat source")
       ELSE IF srcPath = dstPath
       THEN CopyResult(srcPath, dstPath, FALSE, NoErr)
       ELSE IF dstStat = "notexist"
       THEN CopyResult(srcPath, dstPath, TRUE, NoErr)
       ELSE IF dstStat = "error"
       THEN CopyResult(srcPath, dstPath, FALSE, "cannot stat destination")
       ELSE CopyResult(srcPath, dstPath,
                       SizeOf(Read(fsys, srcPath)) # SizeOf(Read(fsys, dstPath)), NoErr)

ShouldCopyPackage(pkg, dstPath0, outputDir0, fsys, faults) ==
    LET dstPath == Clean(dstPath0)
        outputDir == Clean(outputDir0)
        asGiven == Clean(pkg.Filename)
        \* a file that stat finds at pkg.Filename makes this a new package
        isNewPackage == Stat(fsys, faults, asGiven) = "ok"
        srcPath == IF isNewPackage THEN asGiven
                   ELSE Clean(Join(outputDir, pkg.Filename))
        srcStat == Stat(fsys, faults, srcPath)
        dstStat == Stat(fsys, faults, dstPath)
        dstChecksums == CalculateChecksums(fsys, faults, dstPath)
    IN IF ~isNewPackage /\ srcStat = "notexist"
       THEN CopyResult(srcPath, dstPath, FALSE, NoErr)
       ELSE IF ~isNewPackage /\ srcStat = "error"
       THEN CopyResult(srcPath, dstPath, FALSE, "cannot stat source")
       ELSE IF srcPath = dstPath
       THEN CopyResult(srcPath, dstPath, FALSE, NoErr)
       ELSE IF dstStat = "notexist"
       THEN CopyResult(srcPath, dstPath, TRUE, NoErr)
       ELSE IF dstStat = "error"
       THEN CopyResult(srcPath, dstPath, FALSE, "cannot stat destination")
       ELSE IF SizeOf(Read(fsys, srcPath)) # SizeOf(Read(fsys, dstPath))
       THEN CopyResult(srcPath, dstPath, TRUE, NoErr)
       ELSE IF pkg.SHA256Sum # NoSum
               /\ (dstChecksums.err # NoErr \/ pkg.SHA256Sum # dstChecksums.SHA256)
       THEN CopyResult(srcPath, dstPath, TRUE, NoErr)
       ELSE CopyResult(srcPath, dstPath, FALSE, NoErr)

(***************************************************************************)
(* utils.PackageIdentity: the Sprintf of the identity fields, ":" between  *)
(* them; an RPM without a string "Release" extra gets release "1".         *)
(***************************************************************************)
PackageIdentity(pkg, pkgType) ==
    CASE pkgType \in {TypeDeb, TypeApk, TypePacman} ->
            pkg.Name \o ":" \o pkg.Version \o ":" \o pkg.Architecture
      [] pkgType = TypeRpm ->
            LET release == IF "Release" \in DOMAIN pkg.Metadata
                           THEN pkg.Metadata["Release"] ELSE "1"
            IN pkg.Name \o ":" \o pkg.Version \o ":" \o release \o ":"
                   \o pkg.Architecture
      [] OTHER -> pkg.Name \o ":" \o pkg.Version

(***************************************************************************)
(* utils.DetectConflicts: the packages of newPackages, in order, whose     *)
(* identity is a key of the map built from existing.                       *)
(***************************************************************************)
DetectConflictsOverExisting(existing, newPackages, pkgType) ==
    LET existingMap == {PackageIdentity(existing[i], pkgType) : i \in DOMAIN existing}
    IN SelectSeq(existing, LAMBDA pkg : PackageIdentity(pkg, pkgType) \in existingMap)

DetectConflicts(existing, newPackages, pkgType) ==
    LET existingMap == {PackageIdentity(existing[i], pkgType) : i \in DOMAIN existing}
    IN SelectSeq(newPackages, LAMBDA pkg : PackageIdentity(pkg, pkgType) \in existingMap)

(***************************************************************************)
(* merge (spec section 4.3): a conflict fails the merge, otherwise the     *)
(* result is existing ++ incoming.                                         *)
(***************************************************************************)
Merge(existing, incoming, pkgType) ==
    LET conflicts == DetectConflicts(existing, incoming, pkgType)
    IN IF conflicts # <<>>
       THEN [ok |-> FALSE, conflicts |-> conflicts, packages |-> <<>>]
       ELSE [ok |-> TRUE, conflicts |-> <<>>, packages |-> existing \o incoming]

(***************************************************************************)
(* The packages the merge is exercised on: two names, an RPM release that  *)
(* is absent, "1" or "2", and one identity carried by two different files. *)
(***************************************************************************)
MergeUniverse ==
    { Package("pkga", "1.0", "x86_64", NoMetadata, <<"in", "pkga.pkg">>),
      Package("pkga", "1.0", "x86_64", NoMetadata, <<"in", "sub", "pkga.pkg">>),
      Package("pkga", "1.0", "x86_64", [k \in {"Release"} |-> "1"], <<"in", "pkga.pkg">>),
      Package("pkga", "1.0", "x86_64", [k \in {"Release"} |-> "2"], <<"in", "pkga.pkg">>),
      Package("pkgb", "1.0", "x86_64", NoMetadata, <<"in", "pkgb.pkg">>) }

MergeTypes == {TypeDeb, TypeRpm, TypeApk, TypeHomebrewBottle}

NoRet == [op |-> "none"]

InitMerge ==
    /\ fs = <<>>
    /\ clock = 0
    /\ pc = "call"
    /\ args \in [existing : SeqsUpTo(MergeUniverse, MaxMergeLen),
                 incoming : SeqsUpTo(MergeUniverse, MaxMergeLen),
                 pkgType : MergeTypes]
    /\ ret = NoRet

CallDetectConflicts ==
    /\ pc = "call"
    /\ ret = NoRet
    /\ ret' = [op |-> "DetectConflicts",
               conflicts |-> DetectConflicts(args.existing, args.incoming, args.pkgType)]
    /\ pc' = "merge"
    /\ UNCHANGED <<fs, clock, args>>

CallMerge ==
    /\ pc = "merge"
    /\ ret' = [op |-> "Merge",
               merge |-> Merge(args.existing, args.incoming, args.pkgType)]
    /\ pc' = "returned"
    /\ UNCHANGED <<fs, clock, args>>

NextMerge == CallDetectConflicts \/ CallMerge

SpecMerge == InitMerge /\ [][NextMerge]_vars

(***************************************************************************)
(* ShouldCopyPackage on every small disk: a package whose Filename is an   *)
(* input path or a repository-relative path, files of three contents (two  *)
(* of one size) at the places the function looks at, and a stat or open    *)
(* failure on one of them.                                                 *)
(***************************************************************************)
CopyOutputDir == <<Root, "out">>

CopyFilenames == { <<Root, "in", ".", "pkga.deb">>, <<"pool", "pkga.deb">> }

CopyDst == <<Root, "out", "pool", ".", "pkga.deb">>

FileContents == {Raw(b) : b \in SeqsUpTo({0, 1}, MaxFileLen)}

CopyPlaces(filename) ==
    {Resolve(filename), Resolve(Join(CopyOutputDir, filename)), Resolve(CopyDst)}

DisksOver(places) ==
    UNION {[present -> FileContents] : present \in SUBSET places}

InitCopy ==
    /\ clock = 0
    /\ pc = "call"
    /\ ret = NoRet
    /\ \E filename \in CopyFilenames :
          /\ fs \in DisksOver(CopyPlaces(filename))
          /\ \E sum \in {NoSum} \cup {Hash("sha256", c) : c \in FileContents},
                statFault \in {{}} \cup {{p} : p \in CopyPlaces(filename)},
                openFault \in {{}, {Resolve(CopyDst)}} :
                args = [pkg |-> [Package("pkga", "1.0", "amd64", NoMetadata, filename)
                                    EXCEPT !.SHA256Sum = sum],
                        dstPath |-> CopyDst,
                        outputDir |-> CopyOutputDir,
                        faults |-> [stat |-> statFault, open |-> openFault]]

CallShouldCopyPackage ==
    /\ pc = "call"
    /\ ret' = [op |-> "ShouldCopyPackage"] @@
              ShouldCopyPackage(args.pkg, args.dstPath, args.outputDir, fs, args.faults)
    /\ pc' = "copy"
    /\ UNCHANGED <<fs, clock, args>>

\* the caller's step after a needed copy: utils.CopyFile(srcPath, dstPath)
CallCopyFile ==
    /\ pc = "copy"
    /\ ret.err = NoErr
    /\ ret.needsCopy
    /\ fs' = CopyFile(fs, ret.srcPath, ret.dstPath).fs
    /\ pc' = "copied"
    /\ UNCHANGED <<clock, args, ret>>

NextCopy == CallShouldCopyPackage \/ CallCopyFile

SpecCopy == InitCopy /\ [][NextCopy]_vars

(***************************************************************************)
(* Strings.  Go compares strings byte by byte; Alphabet lists, in byte     *)
(* order, the characters that occur in the names used here.                *)
(***************************************************************************)
Alphabet == "-.0123456789_abcdefghijklmnopqrstuvwxyz"

Lower == {SubSeq(Alphabet, i, i) : i \in 14..39}

CharRank(c) == CHOOSE i \in 1..Len(Alphabet) : SubSeq(Alphabet, i, i) = c

RECURSIVE StringLess(_, _)
StringLess(a, b) ==
    IF b = "" THEN FALSE
    ELSE IF a = "" THEN TRUE
    ELSE IF SubSeq(a, 1, 1) # SubSeq(b, 1, 1)
    THEN CharRank(SubSeq(a, 1, 1)) < CharRank(SubSeq(b, 1, 1))
    ELSE StringLess(SubSeq(a, 2, Len(a)), SubSeq(b, 2, Len(b)))

HasSuffix(s, suffix) ==
    Len(s) >= Len(suffix) /\ SubSeq(s, Len(s) - Len(suffix) + 1, Len(s)) = suffix

\* the order in which filepath.Walk meets two paths: names sorted in each
\* directory, a directory's content before its next sibling
RECURSIVE PathLess(_, _)
PathLess(p, q) ==
    IF q = <<>> THEN FALSE
    ELSE IF p = <<>> THEN TRUE
    ELSE IF p[1] # q[1] THEN StringLess(p[1], q[1])
    ELSE PathLess(Tail(p), Tail(q))

\* filepath.Walk visiting the files last to first
RECURSIVE WalkOrderReversed(_)
WalkOrderReversed(paths) ==
    IF paths = {} THEN <<>>
    ELSE LET last == CHOOSE p \in paths : \A q \in paths \ {p} : PathLess(q, p)
         IN <<last>> \o WalkOrderReversed(paths \ {last})

RECURSIVE WalkOrder(_)
WalkOrder(paths) ==
    IF paths = {} THEN <<>>
    ELSE LET first == CHOOSE p \in paths : \A q \in paths \ {p} : PathLess(p, q)
         IN <<first>> \o WalkOrder(paths \ {first})

\* sort.Slice with less = (Name <): an insertion sort for slices this short,
\* which keeps packages of equal name in their order
RECURSIVE SortByName(_)
SortByName(packages) ==
    IF packages = <<>> THEN <<>>
    ELSE LET sorted == SortByName(SubSeq(packages, 1, Len(packages) - 1))
             last == packages[Len(packages)]
             before == SelectSeq(sorted, LAMBDA q : ~StringLess(last.Name, q.Name))
             after == SelectSeq(sorted, LAMBDA q : StringLess(last.Name, q.Name))
         IN before \o <<last>> \o after


(***************************************************************************)
(* Package files.  A package file carries its control data (name, version, *)
(* architecture, for an RPM its release) and a payload; build tells two    *)
(* builds of one package apart.                                            *)
(***************************************************************************)
PackageFile(kind, name, version, arch, build) ==
    [kind |-> kind, Name |-> name, Version |-> version, Architecture |-> arch,
     Release |-> "1", build |-> build]

\* a file with the magic bytes of a package type and no readable control data
CorruptPackageFile(kind) == [kind |-> kind, build |-> 0]

IsPackageFile(content) == content.kind \in {TypeDeb, TypeRpm, TypeApk}

\* scanner.DetectType
DetectType(content) == IF IsPackageFile(content) THEN content.kind ELSE "unknown"

\* deb.ParsePackage, rpm.ParsePackage, apk.ParsePackage: the control data of
\* the file, the path as given, the size and the digests of the file
ParsePackage(fsys, path) ==
    LET c == Read(fsys, path)
        sums == CalculateChecksums(fsys, NoFaults, path)
        metadata == IF c.kind = TypeRpm
                    THEN [Release |-> c.Release,
                          DistroVersion |-> IF "DistroVersion" \in DOMAIN c
                                            THEN c.DistroVersion ELSE ""]
                    ELSE NoMetadata
    IN [Package(c.Name, c.Version, c.Architecture, metadata, path)
           EXCEPT !.Size = sums.Size, !.MD5Sum = sums.MD5, !.SHA1Sum = sums.SHA1,
                  !.SHA256Sum = sums.SHA256, !.SHA512Sum = sums.SHA512]

\* the error of ParsePackage: the control data cannot be extracted
ParseError(fsys, path) ==
    IF "Name" \in DOMAIN Read(fsys, path) THEN NoErr ELSE "failed to extract control"

\* FileSystemScanner.Scan: the package files below dir, in Walk order
Scan(fsys, dirs, dir) ==
    IF Resolve(dir) \notin dirs
    THEN [err |-> "failed to scan directory", packages |-> <<>>]
    ELSE LET found == {p \in DOMAIN fsys :
                          IsPrefix(Resolve(dir), p) /\ DetectType(fsys[p]) # "unknown"}
         IN [err |-> NoErr,
             packages |-> [i \in DOMAIN WalkOrder(found) |->
                              [Path |-> WalkOrder(found)[i],
                               Type |-> DetectType(fsys[WalkOrder(found)[i]])]]]

(***************************************************************************)
(* Signers.  A key file is unreadable garbage, or a key; a key loads, and  *)
(* says whether openpgp can sign with it (SignDetached) and whether the    *)
(* gpg command line can (SignCleartext).  NoSigner is the nil signer.      *)
(***************************************************************************)
KeyFile(id, detach, clearsign) ==
    [kind |-> "key", id |-> id, detach |-> detach, clearsign |-> clearsign]

NoSigner == [kind |-> "nil", id |-> "", detach |-> FALSE, clearsign |-> FALSE]

NoData == Raw(<<>>)

\* a key that does not load gives the nil signer and no error
NewSignerOrNone(fsys, keyPath) ==
    IF keyPath # <<>> /\ Exists(fsys, keyPath) /\ Read(fsys, keyPath).kind = "key"
    THEN [err |-> NoErr, signer |-> Read(fsys, keyPath)]
    ELSE [err |-> NoErr, signer |-> NoSigner]

\* signer.NewGPGSigner and signer.NewAlpineRSASigner
NewSigner(fsys, keyPath) ==
    IF keyPath = <<>> THEN [err |-> "key path is empty", signer |-> NoSigner]
    ELSE IF ~Exists(fsys, keyPath) THEN [err |-> "failed to open key file", signer |-> NoSigner]
    ELSE IF Read(fsys, keyPath).kind # "key" THEN [err |-> "failed to read key", signer |-> NoSigner]
    ELSE [err |-> NoErr, signer |-> Read(fsys, keyPath)]

\* GPGSigner.SignDetached, AlpineRSASigner.SignRSA
SignDetached(signer, data) ==
    IF ~signer.detach THEN [err |-> "failed to create detached signature", data |-> NoData]
    ELSE [err |-> NoErr, data |-> [kind |-> "signature", by |-> signer.id, over |-> data]]

\* GPGSigner.SignCleartext: the output of gpg --clearsign
SignCleartext(signer, data) ==
    IF ~signer.clearsign THEN [err |-> "failed to sign with GPG", data |-> NoData]
    ELSE [err |-> NoErr,
          data |-> [kind |-> "clearsigned", message |-> data,
                    signature |-> [kind |-> "signature", by |-> signer.id, over |-> data]]]

BeginSignedMessage == "-----BEGIN PGP SIGNED MESSAGE-----"

BeginSignature == "-----BEGIN PGP SIGNATURE-----"

\* the armor header lines a file's bytes contain
ArmorLines(content) ==
    CASE content.kind = "clearsigned" -> {BeginSignedMessage, BeginSignature}
      [] content.kind = "signature" -> {BeginSignature}
      [] OTHER -> {}


(***************************************************************************)
(* models.RepositoryConfig with the defaults of the generate command.      *)
(***************************************************************************)
DefaultCodename == "stable"

DefaultComponents == <<"main">>

RepositoryConfig(inputDir, outputDir, arches, gpgKeyPath, rsaKeyPath, incremental) ==
    [InputDir |-> inputDir, OutputDir |-> outputDir,
     Origin |-> "Repogen Repository", Label |-> "Repogen Repository",
     Codename |-> DefaultCodename, Suite |-> DefaultCodename,
     Components |-> DefaultComponents, Arches |-> arches, Version |-> "",
     GPGKeyPath |-> gpgKeyPath, RSAKeyPath |-> rsaKeyPath, RSAKeyName |-> "repogen",
     BaseURL |-> "", DistroVariant |-> "fedora", RepoName |-> "",
     Incremental |-> incremental]

(***************************************************************************)
(* Debian: internal/generator/deb.                                         *)
(***************************************************************************)
\* one stanza of a Packages file: the lines GeneratePackagesFile prints for
\* a package (the optional lines are printed for non-empty fields only)
DebStanza(pkg) ==
    [Package |-> pkg.Name, Version |-> pkg.Version,
     Architecture |-> pkg.Architecture, Filename |-> pkg.Filename,
     Size |-> pkg.Size, MD5sum |-> pkg.MD5Sum, SHA1 |-> pkg.SHA1Sum,
     SHA256 |-> pkg.SHA256Sum, SHA512 |-> pkg.SHA512Sum,
     Description |-> pkg.Description]

\* GeneratePackagesFile printing the stanza of the first package only
GeneratePackagesFileFirstOnly(packages) ==
    LET sorted == SortByName(packages)
    IN [kind |-> "Packages",
        entries |-> [i \in DOMAIN sorted \cap {1} |-> DebStanza(sorted[i])]]

GeneratePackagesFile(packages) ==
    LET sorted == SortByName(packages)
    IN [kind |-> "Packages", entries |-> [i \in DOMAIN sorted |-> DebStanza(sorted[i])]]

GzipCompress(data) == [kind |-> "gz", of |-> data]

\* the pool directory letter of a package name
FirstLetter(name) ==
    IF SubSeq(name, 1, 1) \in Lower THEN SubSeq(name, 1, 1) ELSE "0"

\* the copy loop of generateForArch: every package is copied into the pool
\* from pkg.Filename, and its Filename becomes the pool path relative to the
\* output directory
RECURSIVE DebCopyToPool(_, _, _)
DebCopyToPool(config, packages, fsys) ==
    IF packages = <<>> THEN [fs |-> fsys, err |-> NoErr, packages |-> <<>>]
    ELSE LET pkg == Head(packages)
             poolDir == Join(config.OutputDir, <<"pool", "main">>)
             pkgDir == Join(poolDir, <<FirstLetter(pkg.Name), pkg.Name>>)
             dstPath == Join(pkgDir, <<Base(pkg.Filename)>>)
             copied == CopyFile(fsys, pkg.Filename, dstPath)
         IN IF EnsureDir(fsys, pkgDir) # NoErr
            THEN [fs |-> fsys, err |-> EnsureDir(fsys, pkgDir), packages |-> <<>>]
            ELSE IF copied.err # NoErr
            THEN [fs |-> copied.fs, err |-> "failed to copy", packages |-> <<>>]
            ELSE LET rest == DebCopyToPool(config, Tail(packages), copied.fs)
                     moved == [pkg EXCEPT !.Filename = Rel(config.OutputDir, dstPath)]
                 IN [fs |-> rest.fs, err |-> rest.err,
                     packages |-> IF rest.err = NoErr
                                  THEN <<moved>> \o rest.packages ELSE <<>>]

DebBinaryDir(config, comp, arch) ==
    Join(config.OutputDir, <<"dists", config.Codename, comp, "binary-" \o arch>>)

DebGenerateForArch(config, arch, packages, fsys) ==
    LET pooled == DebCopyToPool(config, packages, fsys)
        distsDir == DebBinaryDir(config, "main", arch)
        packagesData == GeneratePackagesFile(pooled.packages)
        withPackages == WriteFile(pooled.fs, Join(distsDir, <<"Packages">>), packagesData)
    IN IF EnsureDir(fsys, distsDir) # NoErr
       THEN [fs |-> fsys, err |-> EnsureDir(fsys, distsDir)]
       ELSE IF EnsureDir(fsys, Join(config.OutputDir, <<"pool", "main">>)) # NoErr
       THEN [fs |-> fsys, err |-> "not a directory"]
       ELSE IF pooled.err # NoErr THEN [fs |-> pooled.fs, err |-> pooled.err]
       ELSE [fs |-> WriteFile(withPackages, Join(distsDir, <<"Packages.gz">>),
                              GzipCompress(packagesData)),
             err |-> NoErr]

\* the Packages files only, without the Packages.gz
RECURSIVE DebMetadataFilesPlainOnly(_, _)
DebMetadataFilesPlainOnly(arches, components) ==
    IF arches = <<>> THEN <<>>
    ELSE [i \in DOMAIN components |->
             <<components[i], "binary-" \o Head(arches), "Packages">>]
         \o DebMetadataFilesPlainOnly(Tail(arches), components)

\* the Packages and Packages.gz of every architecture and component,
\* relative to dists/<codename>
RECURSIVE DebMetadataFiles(_, _)
DebMetadataFiles(arches, components) ==
    IF arches = <<>> THEN <<>>
    ELSE LET ofArch(comps) ==
                 [i \in 1..(2 * Len(comps)) |->
                     <<comps[(i + 1) \div 2], "binary-" \o Head(arches),
                       IF i % 2 = 1 THEN "Packages" ELSE "Packages.gz">>]
         IN ofArch(components) \o DebMetadataFiles(Tail(arches), components)

RECURSIVE CalculateReleaseFileInfos(_, _, _)
CalculateReleaseFileInfos(fsys, basePath, files) ==
    IF files = <<>> THEN [err |-> NoErr, infos |-> <<>>]
    ELSE LET checksum == CalculateChecksums(fsys, NoFaults, Join(basePath, Head(files)))
             rest == CalculateReleaseFileInfos(fsys, basePath, Tail(files))
         IN IF checksum.err # NoErr \/ rest.err # NoErr
            THEN [err |-> "failed to calculate checksum", infos |-> <<>>]
            ELSE [err |-> NoErr,
                  infos |-> <<[Path |-> Head(files), Checksum |-> checksum]>> \o rest.infos]

GenerateReleaseFile(config, files, now) ==
    [kind |-> "Release", Origin |-> config.Origin, Label |-> config.Label,
     Suite |-> config.Suite, Codename |-> config.Codename,
     Architectures |-> config.Arches, Components |-> config.Components,
     Date |-> now, files |-> files]


\* generateRelease without its Release.gpg step
DebGenerateReleaseInlineOnly(config, signer, fsys, now) ==
    LET distsDir == Join(config.OutputDir, <<"dists", config.Codename>>)
        fileInfos == CalculateReleaseFileInfos(fsys, distsDir,
                         DebMetadataFiles(config.Arches, config.Components))
        releaseData == GenerateReleaseFile(config, fileInfos.infos, now)
        withRelease == WriteFile(fsys, Join(distsDir, <<"Release">>), releaseData)
        inReleaseData == IF signer # NoSigner THEN SignCleartext(signer, releaseData)
                         ELSE [err |-> NoErr, data |-> releaseData]
    IN IF fileInfos.err # NoErr THEN [fs |-> fsys, err |-> fileInfos.err]
       ELSE IF inReleaseData.err # NoErr
       THEN [fs |-> withRelease, err |-> "failed to sign InRelease"]
       ELSE [fs |-> WriteFile(withRelease, Join(distsDir, <<"InRelease">>),
                              inReleaseData.data),
             err |-> NoErr]

\* generateRelease: Release over the Packages files; with a signer InRelease
\* and Release.gpg, without one InRelease with the bytes of Release
DebGenerateRelease(config, signer, fsys, now) ==
    LET distsDir == Join(config.OutputDir, <<"dists", config.Codename>>)
        fileInfos == CalculateReleaseFileInfos(fsys, distsDir,
                         DebMetadataFiles(config.Arches, config.Components))
        releaseData == GenerateReleaseFile(config, fileInfos.infos, now)
        withRelease == WriteFile(fsys, Join(distsDir, <<"Release">>), releaseData)
        inReleaseData == SignCleartext(signer, releaseData)
        withInRelease == WriteFile(withRelease, Join(distsDir, <<"InRelease">>),
                                   inReleaseData.data)
        releaseGpg == SignDetached(signer, releaseData)
    IN IF fileInfos.err # NoErr THEN [fs |-> fsys, err |-> fileInfos.err]
       ELSE IF signer # NoSigner
       THEN IF inReleaseData.err # NoErr
            THEN [fs |-> withRelease, err |-> "failed to sign InRelease"]
            ELSE IF releaseGpg.err # NoErr
            THEN [fs |-> withInRelease, err |-> "failed to create Release.gpg"]
            ELSE [fs |-> WriteFile(withInRelease, Join(distsDir, <<"Release.gpg">>),
                                   releaseGpg.data),
                  err |-> NoErr]
       ELSE [fs |-> WriteFile(withRelease, Join(distsDir, <<"InRelease">>), releaseData),
             err |-> NoErr]

\* the architecture loop of Generate
RECURSIVE DebGenerateArches(_, _, _, _)
DebGenerateArches(config, arches, packages, fsys) ==
    IF arches = <<>> THEN [fs |-> fsys, err |-> NoErr]
    ELSE LET ofArch == SelectSeq(packages, LAMBDA pkg :
                           (IF pkg.Architecture = "" THEN "amd64" ELSE pkg.Architecture)
                               = Head(arches))
             done == DebGenerateForArch(config, Head(arches), ofArch, fsys)
         IN IF done.err # NoErr THEN done
            ELSE DebGenerateArches(config, Tail(arches), packages, done.fs)

\* Generator.Generate of package deb
DebGenerate(config, packages, signer, fsys, now) ==
    LET generated == DebGenerateArches(config, config.Arches, packages, fsys)
    IN IF generated.err # NoErr THEN generated
       ELSE DebGenerateRelease(config, signer, generated.fs, now)

\* ValidatePackages without the check of the file name
DebValidatePackagesAnyName(packages) ==
    IF \E i \in DOMAIN packages : packages[i].Name = "" THEN "package missing name"
    ELSE IF \E i \in DOMAIN packages : packages[i].Version = "" THEN "missing version"
    ELSE IF \E i \in DOMAIN packages : packages[i].Architecture = ""
    THEN "missing architecture"
    ELSE NoErr

DebValidatePackages(packages) ==
    IF \E i \in DOMAIN packages : packages[i].Name = "" THEN "package missing name"
    ELSE IF \E i \in DOMAIN packages : packages[i].Version = "" THEN "missing version"
    ELSE IF \E i \in DOMAIN packages : packages[i].Architecture = ""
    THEN "missing architecture"
    ELSE IF \E i \in DOMAIN packages : ~HasSuffix(Base(packages[i].Filename), ".deb")
    THEN "not a .deb file"
    ELSE NoErr

\* parsePackagesReader: the package each stanza describes
DebParseStanza(stanza) ==
    [Package(stanza.Package, stanza.Version, stanza.Architecture, NoMetadata,
             stanza.Filename)
        EXCEPT !.Size = stanza.Size, !.MD5Sum = stanza.MD5sum, !.SHA1Sum = stanza.SHA1,
               !.SHA256Sum = stanza.SHA256, !.SHA512Sum = stanza.SHA512,
               !.Description = stanza.Description]

\* parsePackagesFile, and parsePackagesGzFile when Packages cannot be read
DebParsePackagesAt(fsys, packagesPath) ==
    LET gzPath == SubSeq(packagesPath, 1, Len(packagesPath) - 1) \o <<"Packages.gz">>
        plain == IF Exists(fsys, packagesPath) THEN Read(fsys, packagesPath) ELSE NoData
        zipped == IF Exists(fsys, gzPath) THEN Read(fsys, gzPath) ELSE NoData
        data == IF plain.kind = "Packages" THEN plain
                ELSE IF Exists(fsys, packagesPath) THEN [kind |-> "Packages", entries |-> <<>>]
                ELSE IF zipped.kind = "gz" /\ zipped.of.kind = "Packages" THEN zipped.of
                ELSE [kind |-> "Packages", entries |-> <<>>]
    IN [i \in DOMAIN data.entries |-> DebParseStanza(data.entries[i])]

RECURSIVE DebParseArches(_, _, _)
DebParseArches(config, arches, fsys) ==
    IF arches = <<>> THEN <<>>
    ELSE LET ofComp(i) == DebParsePackagesAt(fsys,
                 Join(DebBinaryDir(config, config.Components[i], Head(arches)),
                      <<"Packages">>))
             RECURSIVE comps(_)
             comps(i) == IF i > Len(config.Components) THEN <<>>
                         ELSE ofComp(i) \o comps(i + 1)
         IN comps(1) \o DebParseArches(config, Tail(arches), fsys)

\* Generator.ParseExistingMetadata of package deb
DebParseExistingMetadata(config, fsys) ==
    LET allPackages == DebParseArches(config, config.Arches, fsys)
    IN IF allPackages = <<>>
       THEN [err |-> "no existing Debian metadata found", packages |-> <<>>]
       ELSE [err |-> NoErr, packages |-> allPackages]


(***************************************************************************)
(* RPM: internal/generator/rpm.  BaseURL is empty in every configuration   *)
(* used here, so no .repo file is written.                                 *)
(***************************************************************************)
getPackageVersion(config, pkg) ==
    IF config.Version # "" THEN config.Version
    ELSE IF "DistroVersion" \in DOMAIN pkg.Metadata /\ pkg.Metadata["DistroVersion"] # ""
    THEN pkg.Metadata["DistroVersion"]
    ELSE IF config.DistroVariant \in {"centos", "rhel"} THEN "9"
    ELSE "40"

RpmArch(pkg) == IF pkg.Architecture = "" THEN "x86_64" ELSE pkg.Architecture

\* the copy loop of generateForVersionArch
RECURSIVE RpmCopyPackages(_, _, _)
RpmCopyPackages(packagesDir, packages, fsys) ==
    IF packages = <<>> THEN [fs |-> fsys, err |-> NoErr, packages |-> <<>>]
    ELSE LET pkg == Head(packages)
             dstPath == Join(packagesDir, <<Base(pkg.Filename)>>)
             copied == CopyFile(fsys, pkg.Filename, dstPath)
         IN IF copied.err # NoErr
            THEN [fs |-> copied.fs, err |-> "failed to copy", packages |-> <<>>]
            ELSE LET rest == RpmCopyPackages(packagesDir, Tail(packages), copied.fs)
                     moved == [pkg EXCEPT !.Filename = <<"Packages", Base(pkg.Filename)>>]
                 IN [fs |-> rest.fs, err |-> rest.err,
                     packages |-> IF rest.err = NoErr
                                  THEN <<moved>> \o rest.packages ELSE <<>>]

\* one <package> element of primary.xml
RpmXmlPkg(pkg, now) ==
    [Name |-> pkg.Name, Arch |-> pkg.Architecture, Ver |-> pkg.Version,
     Rel |-> IF "Release" \in DOMAIN pkg.Metadata THEN pkg.Metadata["Release"] ELSE "1",
     Checksum |-> pkg.SHA256Sum, Summary |-> pkg.Description, Size |-> pkg.Size,
     Href |-> pkg.Filename, File |-> now]

generatePrimaryXML(packages, now) ==
    [kind |-> "primary.xml",
     packages |-> [i \in DOMAIN packages |-> RpmXmlPkg(packages[i], now)]]

\* the hex text of the digest of a package file: one text for each content
PackageSumText(sum) ==
    IF sum = NoSum THEN ""
    ELSE sum[1] \o ":" \o sum[2].kind \o ":"
         \o (IF "Name" \in DOMAIN sum[2]
             THEN sum[2].Name \o ":" \o sum[2].Version \o ":" \o sum[2].Architecture
                  \o ":" \o sum[2].Release
             ELSE "")
         \o ":" \o (IF "build" \in DOMAIN sum[2] THEN ToString(sum[2].build) ELSE "")

RECURSIVE PathText(_)
PathText(path) == IF path = <<>> THEN "" ELSE Head(path) \o "/" \o PathText(Tail(path))

RECURSIVE PrimaryText(_)
PrimaryText(xmlPkgs) ==
    IF xmlPkgs = <<>> THEN ""
    ELSE Head(xmlPkgs).Name \o "," \o Head(xmlPkgs).Arch \o "," \o Head(xmlPkgs).Ver
         \o "," \o Head(xmlPkgs).Rel \o "," \o PackageSumText(Head(xmlPkgs).Checksum)
         \o "," \o Head(xmlPkgs).Summary \o "," \o ToString(Head(xmlPkgs).Size)
         \o "," \o PathText(Head(xmlPkgs).Href) \o "," \o ToString(Head(xmlPkgs).File)
         \o ";" \o PrimaryText(Tail(xmlPkgs))

\* the hex text of the digest of a primary.xml.gz, as utils.CalculateChecksum
\* prints it: one text for each content of the file
HexText(checksum) == checksum[1] \o "(" \o PrimaryText(checksum[2].of.packages) \o ")"

\* the name of the primary file: its hex digest, then -primary.xml.gz
PrimaryName(primaryChecksum) == HexText(primaryChecksum) \o "-primary.xml.gz"

\* generateRepomdXML with the location of an unnamed primary file
generateRepomdXMLPlainHref(primaryChecksum, now) ==
    [kind |-> "repomd.xml", Revision |-> now, Type |-> "primary",
     Checksum |-> primaryChecksum, OpenChecksum |-> Hash("sha256", primaryChecksum),
     Href |-> <<"repodata", "primary.xml.gz">>]

generateRepomdXML(primaryChecksum, now) ==
    [kind |-> "repomd.xml", Revision |-> now, Type |-> "primary",
     Checksum |-> primaryChecksum, OpenChecksum |-> Hash("sha256", primaryChecksum),
     Href |-> <<"repodata", PrimaryName(primaryChecksum)>>]

generateForVersionArch(config, version, arch, packages, signer, fsys, now) ==
    LET versionArchDir == Join(config.OutputDir, <<version, arch>>)
        repodataDir == Join(versionArchDir, <<"repodata">>)
        packagesDir == Join(versionArchDir, <<"Packages">>)
        copied == RpmCopyPackages(packagesDir, packages, fsys)
        primaryGz == GzipCompress(generatePrimaryXML(copied.packages, now))
        primaryChecksum == Hash("sha256", primaryGz)
        withPrimary == WriteFile(copied.fs,
                           Join(repodataDir, <<PrimaryName(primaryChecksum)>>), primaryGz)
        repomdXML == generateRepomdXML(primaryChecksum, now)
        withRepomd == WriteFile(withPrimary, Join(repodataDir, <<"repomd.xml">>), repomdXML)
        signature == SignDetached(signer, repomdXML)
    IN IF EnsureDir(fsys, repodataDir) # NoErr
       THEN [fs |-> fsys, err |-> EnsureDir(fsys, repodataDir)]
       ELSE IF EnsureDir(fsys, packagesDir) # NoErr
       THEN [fs |-> fsys, err |-> EnsureDir(fsys, packagesDir)]
       ELSE IF copied.err # NoErr THEN [fs |-> copied.fs, err |-> copied.err]
       ELSE IF signer = NoSigner THEN [fs |-> withRepomd, err |-> NoErr]
       ELSE IF signature.err # NoErr
       THEN [fs |-> withRepomd, err |-> "failed to sign repomd.xml"]
       ELSE [fs |-> WriteFile(withRepomd, Join(repodataDir, <<"repomd.xml.asc">>),
                              signature.data),
             err |-> NoErr]

\* the loop of Generate over the version/architecture groups, a Go map: the
\* groups are met in any order, and the result is one of the outcomes
RECURSIVE RpmGenerateGroups(_, _, _, _, _, _)
RpmGenerateGroups(config, groups, packages, signer, fsys, now) ==
    IF groups = {} THEN {[fs |-> fsys, err |-> NoErr]}
    ELSE UNION {
        LET pkgs == SelectSeq(packages, LAMBDA pkg :
                        <<getPackageVersion(config, pkg), RpmArch(pkg)>> = g)
            done == generateForVersionArch(config, g[1], g[2], pkgs, signer, fsys, now)
        IN IF done.err # NoErr THEN {done}
           ELSE RpmGenerateGroups(config, groups \ {g}, packages, signer, done.fs, now)
        : g \in groups }

\* Generator.Generate of package rpm: the set of its possible outcomes
RpmGenerate(config, packages, signer, fsys, now) ==
    RpmGenerateGroups(config,
        {<<getPackageVersion(config, packages[i]), RpmArch(packages[i])>> :
            i \in DOMAIN packages},
        packages, signer, fsys, now)

RpmValidatePackages(packages) ==
    IF \E i \in DOMAIN packages : packages[i].Name = "" THEN "package missing name"
    ELSE NoErr

\* parsePrimaryXML: the packages of the primary file repomd.xml points to
parsePrimaryXML(fsys, archDir) ==
    LET repomdPath == Join(archDir, <<"repodata", "repomd.xml">>)
        repomdDoc == Read(fsys, repomdPath)
        primaryPath == Join(archDir, repomdDoc.Href)
        primaryGz == Read(fsys, primaryPath)
        xmlPkgs == primaryGz.of.packages
    IN IF ~Exists(fsys, repomdPath) \/ repomdDoc.kind # "repomd.xml"
       THEN [err |-> "no repomd.xml", packages |-> <<>>]
       ELSE IF ~Exists(fsys, primaryPath) \/ primaryGz.kind # "gz"
       THEN [err |-> "no primary.xml.gz", packages |-> <<>>]
       ELSE IF primaryGz.of.kind # "primary.xml"
       THEN [err |-> "not a primary.xml", packages |-> <<>>]
       ELSE [err |-> NoErr,
             packages |-> [i \in DOMAIN xmlPkgs |->
                 [Package(xmlPkgs[i].Name, xmlPkgs[i].Ver, xmlPkgs[i].Arch,
                          [Release |-> xmlPkgs[i].Rel], xmlPkgs[i].Href)
                     EXCEPT !.Description = xmlPkgs[i].Summary,
                            !.Size = xmlPkgs[i].Size,
                            !.SHA256Sum = xmlPkgs[i].Checksum]]]

\* the <version>/<arch> directories below the output directory, in the
\* order of os.ReadDir
RpmArchDirs(config, fsys) ==
    LET out == Resolve(config.OutputDir)
    IN WalkOrder({SubSeq(p, 1, Len(out) + 2) :
                     p \in {q \in DOMAIN fsys : IsPrefix(out, q) /\ Len(q) >= Len(out) + 3}})

RECURSIVE RpmParseDirs(_, _)
RpmParseDirs(fsys, archDirs) ==
    IF archDirs = <<>> THEN <<>>
    ELSE parsePrimaryXML(fsys, Head(archDirs)).packages \o RpmParseDirs(fsys, Tail(archDirs))

\* Generator.ParseExistingMetadata of package rpm
RpmParseExistingMetadata(config, fsys) ==
    LET allPackages == RpmParseDirs(fsys, RpmArchDirs(config, fsys))
    IN IF allPackages = <<>>
       THEN [err |-> "no existing RPM metadata found", packages |-> <<>>]
       ELSE [err |-> NoErr, packages |-> allPackages]


(***************************************************************************)
(* Alpine: internal/generator/apk.                                         *)
(***************************************************************************)
\* the copy loop of generateForArch: copy, then size and digests again from
\* the copied file, then Filename becomes the base name
RECURSIVE ApkCopyPackages(_, _, _)
ApkCopyPackages(archDir, packages, fsys) ==
    IF packages = <<>> THEN [fs |-> fsys, err |-> NoErr, packages |-> <<>>]
    ELSE LET pkg == Head(packages)
             dstPath == Join(archDir, <<Base(pkg.Filename)>>)
             copied == CopyFile(fsys, pkg.Filename, dstPath)
             checksums == CalculateChecksums(copied.fs, NoFaults, dstPath)
         IN IF copied.err # NoErr
            THEN [fs |-> copied.fs, err |-> "failed to copy", packages |-> <<>>]
            ELSE IF checksums.err # NoErr
            THEN [fs |-> copied.fs, err |-> "failed to calculate checksums",
                  packages |-> <<>>]
            ELSE LET rest == ApkCopyPackages(archDir, Tail(packages), copied.fs)
                     moved == [pkg EXCEPT !.Size = checksums.Size,
                                          !.MD5Sum = checksums.MD5,
                                          !.SHA1Sum = checksums.SHA1,
                                          !.SHA256Sum = checksums.SHA256,
                                          !.Filename = <<Base(pkg.Filename)>>]
                 IN [fs |-> rest.fs, err |-> rest.err,
                     packages |-> IF rest.err = NoErr
                                  THEN <<moved>> \o rest.packages ELSE <<>>]

\* generateAPKINDEX: C is "Q1" and the base64 of the SHA1 digest
generateAPKINDEX(packages) ==
    [i \in DOMAIN packages |->
        [C |-> <<"Q1", packages[i].SHA1Sum>>, P |-> packages[i].Name,
         V |-> packages[i].Version, A |-> packages[i].Architecture,
         S |-> packages[i].Size, T |-> packages[i].Description]]

createAPKINDEXTarGz(description, apkindex) ==
    [kind |-> "APKINDEX.tar.gz", DESCRIPTION |-> description, APKINDEX |-> apkindex]

ApkGenerateForArch(config, arch, packages, signer, fsys) ==
    LET archDir == Join(config.OutputDir, <<arch>>)
        copied == ApkCopyPackages(archDir, packages, fsys)
        apkindexTarGz == createAPKINDEXTarGz("Alpine Package Index for " \o arch,
                                             generateAPKINDEX(copied.packages))
        withIndex == WriteFile(copied.fs, Join(archDir, <<"APKINDEX.tar.gz">>),
                               apkindexTarGz)
        signature == SignDetached(signer, apkindexTarGz)
    IN IF EnsureDir(fsys, archDir) # NoErr
       THEN [fs |-> fsys, err |-> EnsureDir(fsys, archDir)]
       ELSE IF copied.err # NoErr THEN [fs |-> copied.fs, err |-> copied.err]
       ELSE IF signer = NoSigner THEN [fs |-> withIndex, err |-> NoErr]
       ELSE IF signature.err # NoErr
       THEN [fs |-> withIndex, err |-> "failed to sign APKINDEX"]
       ELSE [fs |-> WriteFile(withIndex,
                        Join(archDir, <<"APKINDEX.tar.gz.SIGN.RSA."
                                          \o config.RSAKeyName \o ".pub">>),
                        signature.data),
             err |-> NoErr]

ApkArch(pkg) == IF pkg.Architecture = "" THEN "x86_64" ELSE pkg.Architecture

\* the architecture loop of Generate: only the configured architectures that
\* have packages are generated
RECURSIVE ApkGenerateArches(_, _, _, _, _)
ApkGenerateArches(config, arches, packages, signer, fsys) ==
    IF arches = <<>> THEN [fs |-> fsys, err |-> NoErr]
    ELSE LET pkgs == SelectSeq(packages, LAMBDA pkg : ApkArch(pkg) = Head(arches))
             done == IF pkgs = <<>> THEN [fs |-> fsys, err |-> NoErr]
                     ELSE ApkGenerateForArch(config, Head(arches), pkgs, signer, fsys)
         IN IF done.err # NoErr THEN done
            ELSE ApkGenerateArches(config, Tail(arches), packages, signer, done.fs)

\* Generator.Generate of package apk
ApkGenerate(config, packages, signer, fsys) ==
    ApkGenerateArches(config, config.Arches, packages, signer, fsys)

ApkValidatePackages(packages) ==
    IF \E i \in DOMAIN packages : packages[i].Name = "" THEN "package missing name"
    ELSE NoErr

\* parseAPKINDEX and parseAPKINDEXContent: only the SHA1 digest comes back,
\* and Filename is made up as <name>-<version>.apk
parseAPKINDEX(fsys, path) ==
    LET index == Read(fsys, path)
    IN IF ~Exists(fsys, path) \/ index.kind # "APKINDEX.tar.gz" \/ index.APKINDEX = <<>>
       THEN [err |-> "APKINDEX not found", packages |-> <<>>]
       ELSE [err |-> NoErr,
             packages |-> [i \in DOMAIN index.APKINDEX |->
                 LET e == index.APKINDEX[i]
                 IN [Package(e.P, e.V, e.A, NoMetadata, <<e.P \o "-" \o e.V \o ".apk">>)
                       EXCEPT !.Size = e.S, !.Description = e.T,
                              !.SHA1Sum = IF e.C[1] = "Q1" THEN e.C[2] ELSE NoSum]]]

RECURSIVE ApkParseArches(_, _, _)
ApkParseArches(config, arches, fsys) ==
    IF arches = <<>> THEN <<>>
    ELSE parseAPKINDEX(fsys, Join(config.OutputDir, <<Head(arches), "APKINDEX.tar.gz">>)).packages
            \o ApkParseArches(config, Tail(arches), fsys)

\* Generator.ParseExistingMetadata of package apk
ApkParseExistingMetadata(config, fsys) ==
    LET allPackages == ApkParseArches(config, config.Arches, fsys)
    IN IF allPackages = <<>>
       THEN [err |-> "no existing APK metadata found", packages |-> <<>>]
       ELSE [err |-> NoErr, packages |-> allPackages]


(***************************************************************************)
(* The generate command: runGeneration, run after run on one output        *)
(* directory.  The disk starts with the input packages and the key files.  *)
(***************************************************************************)
ErrMetadataGen == "MetadataGen"
ErrSigning == "Signing"
ErrFileOp == "FileOp"
ErrInvalidConfig == "InvalidConfig"

In == <<Root, "in">>

Out == <<Root, "out">>

Keys == <<Root, "keys">>

\* an input directory with an RPM package and a Debian package whose file
\* name does not end in .deb
Mixed == <<Root, "mixed">>

\* the empty --input-dir
NoDir == <<>>

RunDisk ==
    (In \o <<"a", "foo_1.0_amd64.deb">>) :> PackageFile(TypeDeb, "foo", "1.0", "amd64", 0)
    @@ (In \o <<"a", "zz_9_amd64.deb">>) :> CorruptPackageFile(TypeDeb)
    @@ (In \o <<"b", "foo_1.0_amd64.deb">>) :> PackageFile(TypeDeb, "foo", "1.0", "amd64", 1)
    @@ (In \o <<"c", "bar-2.0.apk">>) :> PackageFile(TypeApk, "bar", "2.0", "x86_64", 0)
    @@ (In \o <<"c", "baz-3.0.rpm">>) :> PackageFile(TypeRpm, "baz", "3.0", "x86_64", 0)
    @@ (Mixed \o <<"quux-1.0.rpm">>) :> PackageFile(TypeRpm, "quux", "1.0", "x86_64", 0)
    @@ (Mixed \o <<"qux">>) :> PackageFile(TypeDeb, "qux", "1.0", "amd64", 0)
    @@ (Keys \o <<"good.asc">>) :> KeyFile("good", TRUE, TRUE)
    @@ (Keys \o <<"protected.asc">>) :> KeyFile("protected", TRUE, FALSE)
    @@ (Keys \o <<"locked.asc">>) :> KeyFile("locked", FALSE, FALSE)
    @@ (Keys \o <<"garbage">>) :> Raw(<<0>>)
    @@ (Keys \o <<"rsa.pem">>) :> KeyFile("rsa", TRUE, FALSE)

\* the same disk with an output directory in which a regular file has the
\* name of an architecture directory and the Debian index is not a Packages
\* file
ObstructedDisk ==
    RunDisk
    @@ (Out \o <<"x86_64">>) :> Raw(<<0>>)
    @@ (Out \o <<"dists", DefaultCodename, "main", "binary-amd64", "Packages">>)
           :> Raw(<<0>>)

\* the directories of the disk, the empty one included
RunDirs ==
    {In, In \o <<"a">>, In \o <<"b">>, In \o <<"c">>, In \o <<"empty">>, Mixed, Keys}

InputDirs ==
    {In, In \o <<"a">>, In \o <<"c">>, In \o <<"empty">>, In \o <<"missing">>, Mixed, NoDir}

NoKey == <<>>

\* the (GPGKeyPath, RSAKeyPath) pairs a run is configured with
KeyChoices ==
    { <<NoKey, NoKey>>,
      <<Keys \o <<"good.asc">>, Keys \o <<"rsa.pem">> >>,
      <<Keys \o <<"protected.asc">>, NoKey>>,
      <<Keys \o <<"locked.asc">>, NoKey>>,
      <<Keys \o <<"garbage">>, NoKey>>,
      <<NoKey, Keys \o <<"garbage">> >> }

RunArches == <<"amd64", "x86_64">>

NoArgs == [op |-> "none"]

Returned(errType, cause) == [op |-> "runGeneration", err |-> errType, cause |-> cause]

\* the files below a directory
Below(fsys, dir) == {p \in DOMAIN fsys : IsPrefix(Resolve(dir), p)}

Init ==
    /\ fs \in {RunDisk, ObstructedDisk}
    /\ clock = 0
    /\ pc = "idle"
    /\ args = NoArgs
    /\ ret = NoRet

\* validateConfig: the input and the output directory are required
validateConfig(config) ==
    IF config.InputDir = NoDir THEN "input-dir is required"
    ELSE IF config.OutputDir = NoDir THEN "output-dir is required"
    ELSE NoErr

\* validateConfig, then steps 1 and 2 of runGeneration: scan the input
\* directory and parse what was found, by type; a file that fails to parse
\* is skipped
ScanAndParse ==
    /\ pc = "idle"
    /\ clock < MaxRuns
    /\ \E inputDir \in InputDirs, keys \in KeyChoices, incremental \in BOOLEAN :
          LET config == RepositoryConfig(inputDir, Out, RunArches, keys[1], keys[2],
                                         incremental)
              scanned == Scan(fs, RunDirs, config.InputDir)
              parsed == SelectSeq(scanned.packages,
                                  LAMBDA s : ParseError(fs, s.Path) = NoErr)
              types == {parsed[i].Type : i \in DOMAIN parsed}
              ofType(t) == SelectSeq(parsed, LAMBDA s : s.Type = t)
              run == [op |-> "runGeneration", config |-> config, fs0 |-> fs,
                      packagesByType |->
                          [t \in types |->
                              [i \in DOMAIN ofType(t) |-> ParsePackage(fs, ofType(t)[i].Path)]],
                      gpgSigner |-> NoSigner, rsaSigner |-> NoSigner, todo |-> types]
          IN /\ args' = run
             /\ IF validateConfig(config) # NoErr
                THEN pc' = "done" /\ ret' = Returned(ErrInvalidConfig, validateConfig(config))
                ELSE IF scanned.err # NoErr
                THEN pc' = "done" /\ ret' = Returned(ErrFileOp, scanned.err)
                ELSE IF scanned.packages = <<>>
                THEN pc' = "done" /\ ret' = Returned(NoErr, NoErr)
                ELSE pc' = "signers" /\ ret' = NoRet
    /\ clock' = clock + 1
    /\ UNCHANGED fs

\* step 3: load the configured keys
InitSigners ==
    /\ pc = "signers"
    /\ LET gpg == NewSigner(fs, args.config.GPGKeyPath)
           rsa == NewSigner(fs, args.config.RSAKeyPath)
       IN IF args.config.GPGKeyPath # NoKey /\ gpg.err # NoErr
          THEN pc' = "done" /\ ret' = Returned(ErrSigning, gpg.err) /\ args' = args
          ELSE IF args.config.RSAKeyPath # NoKey /\ rsa.err # NoErr
          THEN pc' = "done" /\ ret' = Returned(ErrSigning, rsa.err) /\ args' = args
          ELSE /\ pc' = "generate"
               /\ ret' = NoRet
               /\ args' = [args EXCEPT !.gpgSigner = gpg.signer, !.rsaSigner = rsa.signer]
    /\ UNCHANGED <<fs, clock>>

ValidatePackages(pkgType, packages) ==
    CASE pkgType = TypeDeb -> DebValidatePackages(packages)
      [] pkgType = TypeRpm -> RpmValidatePackages(packages)
      [] OTHER -> ApkValidatePackages(packages)

\* the outcomes of the Generate of the generator of a type
Generate(pkgType, config, packages, gpgSigner, rsaSigner, fsys, now) ==
    CASE pkgType = TypeDeb -> {DebGenerate(config, packages, gpgSigner, fsys, now)}
      [] pkgType = TypeRpm -> RpmGenerate(config, packages, gpgSigner, fsys, now)
      [] OTHER -> {ApkGenerate(config, packages, rsaSigner, fsys)}

\* the loop of step 4 going on to the next type after a Generate that failed
RunGeneratorSkipFailed ==
    /\ pc = "generate"
    /\ \E pkgType \in args.todo :
          LET packages == args.packagesByType[pkgType]
              invalid == ValidatePackages(pkgType, packages)
          IN IF invalid # NoErr
             THEN /\ pc' = "done"
                  /\ ret' = Returned(ErrInvalidConfig, invalid)
                  /\ UNCHANGED <<fs, args>>
             ELSE \E generated \in Generate(pkgType, args.config, packages,
                                           args.gpgSigner, args.rsaSigner, fs, clock) :
                     /\ fs' = generated.fs
                     /\ pc' = pc
                     /\ ret' = ret
                     /\ args' = [args EXCEPT !.todo = @ \ {pkgType}]
    /\ UNCHANGED clock

\* step 4, one round of the loop over packagesByType, a Go map: ValidatePackages
\* and Generate for a type not yet done
RunGenerator ==
    /\ pc = "generate"
    /\ \E pkgType \in args.todo :
          LET packages == args.packagesByType[pkgType]
              invalid == ValidatePackages(pkgType, packages)
          IN IF invalid # NoErr
             THEN /\ pc' = "done"
                  /\ ret' = Returned(ErrInvalidConfig, invalid)
                  /\ UNCHANGED <<fs, args>>
             ELSE \E generated \in Generate(pkgType, args.config, packages,
                                           args.gpgSigner, args.rsaSigner, fs, clock) :
                     /\ fs' = generated.fs
                     /\ IF generated.err # NoErr
                        THEN /\ pc' = "done"
                             /\ ret' = Returned(ErrMetadataGen, generated.err)
                             /\ args' = args
                        ELSE /\ pc' = pc
                             /\ ret' = ret
                             /\ args' = [args EXCEPT !.todo = @ \ {pkgType}]
    /\ UNCHANGED clock

\* the loop is over: runGeneration returns nil
Succeed ==
    /\ pc = "generate"
    /\ args.todo = {}
    /\ pc' = "done"
    /\ ret' = Returned(NoErr, NoErr)
    /\ UNCHANGED <<fs, clock, args>>

\* the process exits; the next run starts from the disk this one left
Exit ==
    /\ pc = "done"
    /\ pc' = "idle"
    /\ args' = NoArgs
    /\ ret' = NoRet
    /\ UNCHANGED <<fs, clock>>

Next == ScanAndParse \/ InitSigners \/ RunGenerator \/ Succeed \/ Exit

Spec == Init /\ [][Next]_vars


\* the ParseExistingMetadata of the generator of a type
ParseExistingMetadata(pkgType, config, fsys) ==
    CASE pkgType = TypeDeb -> DebParseExistingMetadata(config, fsys)
      [] pkgType = TypeRpm -> RpmParseExistingMetadata(config, fsys)
      [] OTHER -> ApkParseExistingMetadata(config, fsys)

(***************************************************************************)
(* TestIncrementalModeCopiesNewPackages of the deb, rpm and apk packages:  *)
(* generate a repository from a first package, remove the package file     *)
(* from the output directory, read the existing metadata back, and         *)
(* generate again from the existing packages followed by a new one.        *)
(***************************************************************************)
TestNames == {"alpha", "beta", "gamma"}

\* an RPM file whose DISTURL, DISTRIBUTION or DISTTAG names a release of the
\* distribution (fc39): getDistroVersion finds the number
FedoraPackageFile(name, version, arch, distroVersion) ==
    [DistroVersion |-> distroVersion] @@ PackageFile(TypeRpm, name, version, arch, 0)

TestArch(pkgType) == IF pkgType = TypeDeb THEN "amd64" ELSE "x86_64"

TestInput(pkgType, name) == In \o <<pkgType, name \o "-1.0." \o pkgType>>

TestDisk ==
    [p \in {TestInput(t, n) : t \in {TypeDeb, TypeRpm, TypeApk}, n \in TestNames} |->
        LET t == p[Len(p) - 1]
            n == CHOOSE name \in TestNames : TestInput(t, name) = p
        IN IF t = TypeRpm /\ n = "gamma"
           THEN FedoraPackageFile(n, "1.0", TestArch(t), "39")
           ELSE PackageFile(t, n, "1.0", TestArch(t), 0)]
    @@ (Keys \o <<"good.asc">>) :> KeyFile("good", TRUE, TRUE)

InitIncremental ==
    /\ fs = TestDisk
    /\ clock = 0
    /\ pc = "test"
    /\ \E pkgType \in {TypeDeb, TypeRpm, TypeApk}, first \in TestNames,
          second \in TestNames, keyPath \in {NoKey, Keys \o <<"good.asc">>} :
          /\ first # second
          /\ args = [op |-> "test", pkgType |-> pkgType,
                     config |-> RepositoryConfig(In, Out, RunArches, NoKey, NoKey, TRUE),
                     signer |-> IF keyPath = NoKey THEN NoSigner
                                ELSE NewSigner(TestDisk, keyPath).signer,
                     first |-> TestInput(pkgType, first),
                     second |-> TestInput(pkgType, second),
                     removed |-> {}, existing |-> <<>>]
    /\ ret = NoRet

\* Generate for the first package
GenerateFirst ==
    /\ pc = "test"
    /\ \E generated \in Generate(args.pkgType, args.config,
                                 <<ParsePackage(fs, args.first)>>,
                                 args.signer, args.signer, fs, clock + 1) :
          /\ fs' = generated.fs
          /\ ret' = [op |-> "Generate", err |-> generated.err]
    /\ clock' = clock + 1
    /\ pc' = "generated"
    /\ UNCHANGED args

\* os.Remove of the package files in the output directory
RemovePackageFiles ==
    /\ pc = "generated"
    /\ LET gone == {p \in Below(fs, Out) : IsPackageFile(fs[p])}
       IN /\ fs' = Remove(fs, gone)
          /\ args' = [args EXCEPT !.removed = gone]
    /\ pc' = "removed"
    /\ UNCHANGED <<clock, ret>>

\* ParseExistingMetadata, with or without the package files still in place
ParseExisting ==
    /\ pc \in {"generated", "removed"}
    /\ LET parsed == ParseExistingMetadata(args.pkgType, args.config, fs)
       IN /\ ret' = [op |-> "ParseExistingMetadata", err |-> parsed.err]
          /\ args' = [args EXCEPT !.existing = parsed.packages]
    /\ pc' = "parsed"
    /\ UNCHANGED <<fs, clock>>

\* Generate for append(existingPackages, newPackages...)
GenerateMerged ==
    /\ pc = "parsed"
    /\ ret.err = NoErr
    /\ \E generated \in Generate(args.pkgType, args.config,
                                 args.existing \o <<ParsePackage(fs, args.second)>>,
                                 args.signer, args.signer, fs, clock + 1) :
          /\ fs' = generated.fs
          /\ ret' = [op |-> "Generate", err |-> generated.err]
    /\ clock' = clock + 1
    /\ pc' = "merged"
    /\ UNCHANGED args

NextIncremental == GenerateFirst \/ RemovePackageFiles \/ ParseExisting \/ GenerateMerged

SpecIncremental == InitIncremental /\ [][NextIncremental]_vars


(***************************************************************************)
(* The Debian Generator.Generate step by step: generateForArch for every   *)
(* configured architecture, then generateRelease.  The output directory is *)
(* empty, or holds the Packages files of a component contrib that an       *)
(* earlier tool left there.                                                *)
(***************************************************************************)
ReleasePackages ==
    LET first == ParsePackage(RunDisk, In \o <<"a", "foo_1.0_amd64.deb">>)
        second == ParsePackage(RunDisk, In \o <<"b", "foo_1.0_amd64.deb">>)
    IN {<<>>, <<first>>, <<first, second>>}

ReleaseArches == {<<"amd64">>, RunArches}

ReleaseComponents == {DefaultComponents, <<"main", "contrib">>, <<"contrib">>}

\* the disk with Packages files of component contrib for architecture amd64
ContribDisk ==
    LET binaryDir == Out \o <<"dists", DefaultCodename, "contrib", "binary-amd64">>
    IN RunDisk
       @@ (binaryDir \o <<"Packages">>) :> GeneratePackagesFile(<<>>)
       @@ (binaryDir \o <<"Packages.gz">>) :> GzipCompress(GeneratePackagesFile(<<>>))

InitRelease ==
    /\ fs \in {RunDisk, ContribDisk}
    /\ clock = 0
    /\ pc = "arches"
    /\ \E packages \in ReleasePackages, arches \in ReleaseArches,
          components \in ReleaseComponents,
          keyPath \in {NoKey, Keys \o <<"good.asc">>, Keys \o <<"protected.asc">>} :
          args = [op |-> "deb.Generate",
                  config |-> [RepositoryConfig(In, Out, arches, keyPath, NoKey, FALSE)
                                 EXCEPT !.Components = components],
                  packages |-> packages,
                  signer |-> NewSigner(fs, keyPath).signer,
                  fs0 |-> fs,
                  archesLeft |-> arches]
    /\ ret = NoRet

\* one round of the loop of Generate over config.Arches
GenerateForArchStep ==
    /\ pc = "arches"
    /\ args.archesLeft # <<>>
    /\ LET arch == Head(args.archesLeft)
           ofArch == SelectSeq(args.packages, LAMBDA pkg :
                         (IF pkg.Architecture = "" THEN "amd64" ELSE pkg.Architecture)
                             = arch)
           done == DebGenerateForArch(args.config, arch, ofArch, fs)
       IN /\ fs' = done.fs
          /\ IF done.err # NoErr
             THEN /\ pc' = "returned"
                  /\ ret' = [op |-> "Generate", err |-> done.err]
                  /\ args' = args
             ELSE /\ pc' = pc
                  /\ ret' = ret
                  /\ args' = [args EXCEPT !.archesLeft = Tail(@)]
    /\ UNCHANGED clock

\* generateRelease, after the loop
GenerateReleaseStep ==
    /\ pc = "arches"
    /\ args.archesLeft = <<>>
    /\ LET released == DebGenerateRelease(args.config, args.signer, fs, clock)
       IN /\ fs' = released.fs
          /\ ret' = [op |-> "Generate", err |-> released.err]
    /\ pc' = "returned"
    /\ UNCHANGED <<clock, args>>

NextRelease == GenerateForArchStep \/ GenerateReleaseStep

SpecRelease == InitRelease /\ [][NextRelease]_vars


(***************************************************************************)
(* Pacman: internal/generator/pacman.  runGeneration has no generator for  *)
(* TypePacman; Generate is called as the tests of the package call it, on  *)
(* one output directory, call after call.                                  *)
(***************************************************************************)
UpperLetters == "ABCDEFGHIJKLMNOPQRSTUVWXYZ"

LowerLetters == "abcdefghijklmnopqrstuvwxyz"

\* sanitizeRepoName: lower case, then every character that is not a letter,
\* a digit or a hyphen becomes a hyphen
RECURSIVE sanitizeRepoName(_)
sanitizeRepoName(name) ==
    IF name = "" THEN ""
    ELSE LET c == SubSeq(name, 1, 1)
             isUpper == \E i \in 1..Len(UpperLetters) : SubSeq(UpperLetters, i, i) = c
             lower == IF isUpper
                      THEN LET i == CHOOSE k \in 1..Len(UpperLetters) :
                                        SubSeq(UpperLetters, k, k) = c
                           IN SubSeq(LowerLetters, i, i)
                      ELSE c
             kept == \E i \in 1..Len(LowerLetters \o "0123456789-") :
                        SubSeq(LowerLetters \o "0123456789-", i, i) = lower
         IN (IF kept THEN lower ELSE "-") \o sanitizeRepoName(SubSeq(name, 2, Len(name)))

\* the database name: from RepoName, else from Origin, else "custom"
PacmanDbName(config) ==
    IF config.RepoName # "" THEN sanitizeRepoName(config.RepoName)
    ELSE IF config.Origin # "" THEN sanitizeRepoName(config.Origin)
    ELSE "custom"

\* the copy loop of generateForArch
RECURSIVE PacmanCopyPackages(_, _, _)
PacmanCopyPackages(archDir, packages, fsys) ==
    IF packages = <<>> THEN [fs |-> fsys, err |-> NoErr, packages |-> <<>>]
    ELSE LET pkg == Head(packages)
             dstPath == Join(archDir, <<Base(pkg.Filename)>>)
             copied == CopyFile(fsys, pkg.Filename, dstPath)
         IN IF copied.err # NoErr
            THEN [fs |-> copied.fs, err |-> "failed to copy", packages |-> <<>>]
            ELSE LET rest == PacmanCopyPackages(archDir, Tail(packages), copied.fs)
                     moved == [pkg EXCEPT !.Filename = <<Base(pkg.Filename)>>]
                 IN [fs |-> rest.fs, err |-> rest.err,
                     packages |-> IF rest.err = NoErr
                                  THEN <<moved>> \o rest.packages ELSE <<>>]

\* generateDescFile: the fields of the desc entry of a package
generateDescFile(pkg) ==
    [FILENAME |-> pkg.Filename, NAME |-> pkg.Name, VERSION |-> pkg.Version,
     DESC |-> pkg.Description, CSIZE |-> pkg.Size, MD5SUM |-> pkg.MD5Sum,
     SHA256SUM |-> pkg.SHA256Sum, ARCH |-> pkg.Architecture]

\* generateDatabase: a zstd-compressed tar with <name>-<version>/desc for
\* every package
generateDatabase(packages) ==
    [kind |-> "db.tar.zst",
     entries |-> [i \in DOMAIN packages |->
                     [dir |-> packages[i].Name \o "-" \o packages[i].Version,
                      desc |-> generateDescFile(packages[i])]]]

\* the loop of generateForArch that signs every package file
RECURSIVE PacmanSignPackages(_, _, _, _)
PacmanSignPackages(archDir, packages, signer, fsys) ==
    IF packages = <<>> THEN [fs |-> fsys, err |-> NoErr]
    ELSE LET pkgPath == Join(archDir, Head(packages).Filename)
             pkgSig == SignDetached(signer, Read(fsys, pkgPath))
         IN IF ~Exists(fsys, pkgPath) THEN [fs |-> fsys, err |-> "failed to read package"]
            ELSE IF pkgSig.err # NoErr THEN [fs |-> fsys, err |-> "failed to sign package"]
            ELSE PacmanSignPackages(archDir, Tail(packages), signer,
                     WriteFile(fsys,
                               Dir(pkgPath) \o <<Base(pkgPath) \o ".sig">>,
                               pkgSig.data))

\* generateForArch with the database written under the name of the Alpine
\* index
PacmanGenerateForArchAsIndex(config, arch, packages, signer, fsys) ==
    LET archDir == Join(config.OutputDir, <<arch>>)
        copied == PacmanCopyPackages(archDir, packages, fsys)
        dbData == generateDatabase(copied.packages)
        dbFile == "APKINDEX.tar.gz"
        withDb == WriteFile(copied.fs, Join(archDir, <<dbFile>>), dbData)
        signature == SignDetached(signer, dbData)
        withDbSig == WriteFile(withDb, Join(archDir, <<dbFile \o ".sig">>), signature.data)
    IN IF EnsureDir(fsys, archDir) # NoErr
       THEN [fs |-> fsys, err |-> EnsureDir(fsys, archDir)]
       ELSE IF copied.err # NoErr THEN [fs |-> copied.fs, err |-> copied.err]
       ELSE IF signer = NoSigner THEN [fs |-> withDb, err |-> NoErr]
       ELSE IF signature.err # NoErr THEN [fs |-> withDb, err |-> "failed to sign database"]
       ELSE PacmanSignPackages(archDir, copied.packages, signer, withDbSig)

PacmanGenerateForArch(config, arch, packages, signer, fsys) ==
    LET archDir == Join(config.OutputDir, <<arch>>)
        copied == PacmanCopyPackages(archDir, packages, fsys)
        dbData == generateDatabase(copied.packages)
        dbFile == PacmanDbName(config) \o ".db.tar.zst"
        withDb == WriteFile(copied.fs, Join(archDir, <<dbFile>>), dbData)
        signature == SignDetached(signer, dbData)
        withDbSig == WriteFile(withDb, Join(archDir, <<dbFile \o ".sig">>), signature.data)
    IN IF EnsureDir(fsys, archDir) # NoErr
       THEN [fs |-> fsys, err |-> EnsureDir(fsys, archDir)]
       ELSE IF copied.err # NoErr THEN [fs |-> copied.fs, err |-> copied.err]
       ELSE IF signer = NoSigner THEN [fs |-> withDb, err |-> NoErr]
       ELSE IF signature.err # NoErr THEN [fs |-> withDb, err |-> "failed to sign database"]
       ELSE PacmanSignPackages(archDir, copied.packages, signer, withDbSig)

PacmanArch(pkg) == IF pkg.Architecture = "" THEN "x86_64" ELSE pkg.Architecture

\* the loop of Generate over the architectures of the packages, a Go map:
\* the architectures are met in any order, the result is one of the outcomes
RECURSIVE PacmanGenerateArches(_, _, _, _, _)
PacmanGenerateArches(config, arches, packages, signer, fsys) ==
    IF arches = {} THEN {[fs |-> fsys, err |-> NoErr]}
    ELSE UNION {
        LET pkgs == SelectSeq(packages, LAMBDA pkg : PacmanArch(pkg) = arch)
            done == PacmanGenerateForArch(config, arch, pkgs, signer, fsys)
        IN IF done.err # NoErr THEN {done}
           ELSE PacmanGenerateArches(config, arches \ {arch}, packages, signer, done.fs)
        : arch \in arches }

\* Generator.Generate of package pacman: the set of its possible outcomes
PacmanGenerate(config, packages, signer, fsys) ==
    PacmanGenerateArches(config, {PacmanArch(packages[i]) : i \in DOMAIN packages},
                         packages, signer, fsys)

\* the directory of the packages handed to Generate
PacmanIn == <<Root, "pacman">>

PacmanDisk ==
    (PacmanIn \o <<"alpha-1.0-1-x86_64.pkg.tar.zst">>)
        :> PackageFile(TypePacman, "alpha", "1.0-1", "x86_64", 0)
    @@ (PacmanIn \o <<"beta-2.0-1-aarch64.pkg.tar.zst">>)
        :> PackageFile(TypePacman, "beta", "2.0-1", "aarch64", 0)
    @@ (Keys \o <<"good.asc">>) :> KeyFile("good", TRUE, TRUE)
    @@ (Keys \o <<"locked.asc">>) :> KeyFile("locked", FALSE, FALSE)

PacmanPackageLists ==
    LET alpha == ParsePackage(PacmanDisk, PacmanIn \o <<"alpha-1.0-1-x86_64.pkg.tar.zst">>)
        beta == ParsePackage(PacmanDisk, PacmanIn \o <<"beta-2.0-1-aarch64.pkg.tar.zst">>)
    IN {<<alpha>>, <<beta>>, <<alpha, beta>>}

InitPacman ==
    /\ fs = PacmanDisk
    /\ clock = 0
    /\ pc = "pacman"
    /\ args = NoArgs
    /\ ret = NoRet

\* NewGenerator(signer).Generate(ctx, config, packages)
CallPacmanGenerate ==
    /\ pc = "pacman"
    /\ clock < MaxRuns
    /\ \E repoName \in {"", "test-repo"}, origin \in {"", "My Repo"},
          packages \in PacmanPackageLists,
          keyPath \in {NoKey, Keys \o <<"good.asc">>, Keys \o <<"locked.asc">>} :
          LET config == [RepositoryConfig(PacmanIn, Out, <<"x86_64">>, keyPath, NoKey, FALSE)
                            EXCEPT !.RepoName = repoName, !.Origin = origin]
              signer == NewSigner(fs, keyPath).signer
          IN \E generated \in PacmanGenerate(config, packages, signer, fs) :
                /\ fs' = generated.fs
                /\ ret' = [op |-> "Generate", err |-> generated.err]
                /\ args' = [op |-> "pacman.Generate", config |-> config,
                            packages |-> packages, signer |-> signer, fs0 |-> fs]
    /\ clock' = clock + 1
    /\ pc' = pc

NextPacman == CallPacmanGenerate

SpecPacman == InitPacman /\ [][NextPacman]_vars


(***************************************************************************)
(* The Debian index as text.  The control file of a package and the        *)
(* Packages file are strings; parseControl reads the first,                *)
(* GeneratePackagesFile prints the second and parsePackagesReader reads it *)
(* back.  The Package record of this model has no Maintainer, Homepage    *)
(* or License, and no file here has a line that names them; parseControl   *)
(* gives its package the Dependencies of the Depends line.                 *)
(***************************************************************************)
Newline == "\n"

Spaces == {" ", "\t", "\n", "\r"}

\* strings.TrimSpace
RECURSIVE TrimSpace(_)
TrimSpace(s) ==
    IF s = "" THEN s
    ELSE IF SubSeq(s, 1, 1) \in Spaces THEN TrimSpace(SubSeq(s, 2, Len(s)))
    ELSE IF SubSeq(s, Len(s), Len(s)) \in Spaces THEN TrimSpace(SubSeq(s, 1, Len(s) - 1))
    ELSE s

\* strings.Index, counted from 1: 0 when sep does not occur in s
Index(s, sep) ==
    LET hits == {i \in 1..(Len(s) - Len(sep) + 1) : SubSeq(s, i, i + Len(sep) - 1) = sep}
    IN IF hits = {} THEN 0 ELSE CHOOSE i \in hits : \A j \in hits : i <= j

\* bufio.Scanner with the default split function ScanLines
RECURSIVE ScanLines(_)
ScanLines(data) ==
    LET dropCR(line) == IF HasSuffix(line, "\r") THEN SubSeq(line, 1, Len(line) - 1)
                        ELSE line
        n == Index(data, Newline)
    IN IF data = "" THEN <<>>
       ELSE IF n = 0 THEN <<dropCR(data)>>
       ELSE <<dropCR(SubSeq(data, 1, n - 1))>> \o ScanLines(SubSeq(data, n + 1, Len(data)))

Digits == "0123456789"

\* strconv.ParseInt(value, 10, 64) of an unsigned decimal, its error dropped:
\* 0 when value is not a number
RECURSIVE ParseInt(_)
ParseInt(value) ==
    LET isNumber == value # "" /\ \A i \in 1..Len(value) : Index(Digits, SubSeq(value, i, i)) # 0
    IN IF ~isNumber THEN 0
       ELSE IF Len(value) = 1 THEN Index(Digits, value) - 1
       ELSE 10 * ParseInt(SubSeq(value, 1, Len(value) - 1))
            + Index(Digits, SubSeq(value, Len(value), Len(value))) - 1

\* strings.Split(value, ","), every item through strings.TrimSpace
RECURSIVE SplitTrimmed(_)
SplitTrimmed(value) ==
    LET comma == Index(value, ",")
    IN IF comma = 0 THEN <<TrimSpace(value)>>
       ELSE <<TrimSpace(SubSeq(value, 1, comma - 1))>>
            \o SplitTrimmed(SubSeq(value, comma + 1, Len(value)))

\* setValue of parser.go: Depends appends its items to pkg.Dependencies
setValue(pkg, key, value) ==
    CASE key = "Package" -> [pkg EXCEPT !.Name = value]
      [] key = "Version" -> [pkg EXCEPT !.Version = value]
      [] key = "Architecture" -> [pkg EXCEPT !.Architecture = value]
      [] key = "Description" -> [pkg EXCEPT !.Description = value]
      [] key = "Depends" -> [pkg EXCEPT !.Dependencies = @ \o SplitTrimmed(value)]
      [] OTHER -> [pkg EXCEPT !.Metadata = (key :> value) @@ @]

\* the loop of parseControl over the lines of the control file
RECURSIVE parseControlLines(_, _, _, _)
parseControlLines(lines, pkg, currentKey, currentValue) ==
    LET saved == IF currentKey # "" THEN setValue(pkg, currentKey, currentValue) ELSE pkg
    IN IF lines = <<>> THEN saved
       ELSE LET line == Head(lines)
                colon == Index(line, ":")
            IN IF line # "" /\ SubSeq(line, 1, 1) \in {" ", "\t"}
               THEN parseControlLines(Tail(lines), pkg, currentKey,
                                      currentValue \o Newline \o TrimSpace(line))
               ELSE IF colon # 0
               THEN parseControlLines(Tail(lines), saved,
                                      TrimSpace(SubSeq(line, 1, colon - 1)),
                                      TrimSpace(SubSeq(line, colon + 1, Len(line))))
               ELSE parseControlLines(Tail(lines), saved, currentKey, currentValue)

parseControl(data) ==
    parseControlLines(ScanLines(data),
                      [Dependencies |-> <<>>] @@ Package("", "", "", NoMetadata, ""),
                      "", "")

\* the pool path, the size and the digests a package has when
\* GeneratePackagesFile is called
DebPoolFile(pkg) ==
    [pkg EXCEPT !.Filename = "pool/main/" \o SubSeq(pkg.Name, 1, 1) \o "/" \o pkg.Name
                             \o "/" \o pkg.Name \o "_" \o pkg.Version \o "_"
                             \o pkg.Architecture \o ".deb",
                !.Size = 1204, !.MD5Sum = "9e107d9d", !.SHA1Sum = "2fd4e1c6",
                !.SHA256Sum = "d7a8fbb3", !.SHA512Sum = "07e547d9"]

\* the lines GeneratePackagesFile prints for the fields of pkg.Metadata it
\* has not printed already; no package here has more than one such field
RECURSIVE DebMetadataText(_, _)
DebMetadataText(metadata, keys) ==
    IF keys = {} THEN ""
    ELSE LET key == CHOOSE k \in keys : TRUE
         IN key \o ": " \o metadata[key] \o Newline
            \o DebMetadataText(metadata, keys \ {key})

\* the text GeneratePackagesFile prints for one package
DebStanzaText(pkg) ==
    "Package: " \o pkg.Name \o Newline
    \o "Version: " \o pkg.Version \o Newline
    \o "Architecture: " \o pkg.Architecture \o Newline
    \o "Filename: " \o pkg.Filename \o Newline
    \o "Size: " \o ToString(pkg.Size) \o Newline
    \o "MD5sum: " \o pkg.MD5Sum \o Newline
    \o "SHA1: " \o pkg.SHA1Sum \o Newline
    \o "SHA256: " \o pkg.SHA256Sum \o Newline
    \o "SHA512: " \o pkg.SHA512Sum \o Newline
    \o (IF pkg.Description # "" THEN "Description: " \o pkg.Description \o Newline ELSE "")
    \o DebMetadataText(pkg.Metadata,
                       DOMAIN pkg.Metadata \ {"Package", "Version", "Architecture",
                                              "Maintainer", "Homepage", "Description",
                                              "Depends"})
    \o Newline

\* GeneratePackagesFile, byte for byte
RECURSIVE DebStanzasText(_)
DebStanzasText(sorted) ==
    IF sorted = <<>> THEN "" ELSE DebStanzaText(Head(sorted)) \o DebStanzasText(Tail(sorted))

GeneratePackagesText(packages) == DebStanzasText(SortByName(packages))

\* the switch of parsePackagesReader on the field of a line
DebSetField(pkg, field, value) ==
    CASE field = "Package" -> [pkg EXCEPT !.Name = value]
      [] field = "Version" -> [pkg EXCEPT !.Version = value]
      [] field = "Architecture" -> [pkg EXCEPT !.Architecture = value]
      [] field = "Filename" -> [pkg EXCEPT !.Filename = value]
      [] field = "Size" -> [pkg EXCEPT !.Size = ParseInt(value)]
      [] field = "MD5sum" -> [pkg EXCEPT !.MD5Sum = value]
      [] field = "SHA1" -> [pkg EXCEPT !.SHA1Sum = value]
      [] field = "SHA256" -> [pkg EXCEPT !.SHA256Sum = value]
      [] field = "SHA512" -> [pkg EXCEPT !.SHA512Sum = value]
      [] field = "Description" -> [pkg EXCEPT !.Description = value]
      [] OTHER -> [pkg EXCEPT !.Metadata = (field :> value) @@ @]

\* the loop of parsePackagesReader; currentPkg is <<>> for nil
RECURSIVE parsePackagesLines(_, _, _)
parsePackagesLines(lines, packages, currentPkg) ==
    IF lines = <<>> THEN packages \o currentPkg
    ELSE LET line == Head(lines)
             sep == Index(line, ": ")
             started == IF currentPkg = <<>> THEN Package("", "", "", NoMetadata, "")
                        ELSE currentPkg[1]
         IN IF line = "" THEN parsePackagesLines(Tail(lines), packages \o currentPkg, <<>>)
            ELSE IF sep = 0 THEN parsePackagesLines(Tail(lines), packages, currentPkg)
            ELSE parsePackagesLines(Tail(lines), packages,
                     <<DebSetField(started, SubSeq(line, 1, sep - 1),
                                   SubSeq(line, sep + 2, Len(line)))>>)

parsePackagesReader(data) == parsePackagesLines(ScanLines(data), <<>>, <<>>)

(***************************************************************************)
(* SpecDebIndex: control files are parsed, the Packages file of the        *)
(* packages is printed and read back.                                      *)
(***************************************************************************)
\* the longest run of continuation lines of a Description
MaxContinuation == 2

\* the lines that continue a Description in a control file
ContinuationLines == {" more text", "  indented: text", " .", " Version: 9"}

RECURSIVE JoinLines(_)
JoinLines(lines) == IF lines = <<>> THEN "" ELSE Head(lines) \o Newline \o JoinLines(Tail(lines))

ControlFile(name, first, continuation, section) ==
    "Package: " \o name \o Newline
    \o "Version: 1.0" \o Newline
    \o "Architecture: amd64" \o Newline
    \o section
    \o "Description: " \o first \o Newline
    \o JoinLines(continuation)

ControlFiles(name) ==
    {ControlFile(name, first, continuation, section) :
        first \in {"", "a tool"},
        continuation \in SeqsUpTo(ContinuationLines, MaxContinuation),
        section \in {"", "Section: utils\n"}}

InitDebIndex ==
    /\ fs = <<>>
    /\ clock = 0
    /\ pc = "control"
    /\ \E foo \in ControlFiles("foo") :
          args \in {[op |-> "deb.index", control |-> <<foo>>],
                    [op |-> "deb.index",
                     control |-> <<foo, ControlFile("bar", "another tool", <<>>, "")>>]}
    /\ ret = NoRet

\* deb.ParsePackage of every package file
DebParseControlFiles ==
    /\ pc = "control"
    /\ ret' = [op |-> "ParsePackage",
               packages |-> [i \in DOMAIN args.control |->
                                DebPoolFile(parseControl(args.control[i]))]]
    /\ pc' = "write"
    /\ UNCHANGED <<fs, clock, args>>

DebWritePackagesFile ==
    /\ pc = "write"
    /\ ret' = [op |-> "GeneratePackagesFile", packages |-> ret.packages,
               data |-> GeneratePackagesText(ret.packages)]
    /\ pc' = "read"
    /\ UNCHANGED <<fs, clock, args>>

DebReadPackagesFile ==
    /\ pc = "read"
    /\ ret' = [op |-> "parsePackagesReader", packages |-> ret.packages,
               data |-> ret.data, parsed |-> parsePackagesReader(ret.data)]
    /\ pc' = "parsed"
    /\ UNCHANGED <<fs, clock, args>>

NextDebIndex == DebParseControlFiles \/ DebWritePackagesFile \/ DebReadPackagesFile

SpecDebIndex == InitDebIndex /\ [][NextDebIndex]_vars


(***************************************************************************)
(* The Alpine index as text: generateAPKINDEX prints it, with the SHA1     *)
(* digest decoded from hex and encoded in base64, and parseAPKINDEXContent *)
(* reads it back.  Bytes are numbers in 0..255.                            *)
(***************************************************************************)
HexLower == "0123456789abcdef"

HexUpper == "0123456789ABCDEF"

\* fromHexChar of encoding/hex: 16 for a character that is no hex digit
fromHexChar(c) ==
    IF Index(HexLower, c) # 0 THEN Index(HexLower, c) - 1
    ELSE IF Index(HexUpper, c) # 0 THEN Index(HexUpper, c) - 1
    ELSE 16

RECURSIVE HexBytes(_)
HexBytes(s) ==
    IF Len(s) < 2 THEN <<>>
    ELSE <<16 * fromHexChar(SubSeq(s, 1, 1)) + fromHexChar(SubSeq(s, 2, 2))>>
         \o HexBytes(SubSeq(s, 3, Len(s)))

\* the bytes of the hex text itself, as []byte(s) gives them
HexStringAsBytes(s) ==
    [err |-> NoErr,
     bytes |-> [i \in 1..Len(s) |->
                   IF Index(Digits, SubSeq(s, i, i)) # 0
                   THEN 47 + Index(Digits, SubSeq(s, i, i))
                   ELSE 86 + Index(HexLower, SubSeq(s, i, i))]]

\* hex.DecodeString
HexDecodeString(s) ==
    IF \E i \in 1..Len(s) : fromHexChar(SubSeq(s, i, i)) = 16
    THEN [err |-> "invalid byte", bytes |-> <<>>]
    ELSE IF Len(s) % 2 = 1 THEN [err |-> "odd length hex string", bytes |-> <<>>]
    ELSE [err |-> NoErr, bytes |-> HexBytes(s)]

\* hex.EncodeToString
RECURSIVE HexEncodeToString(_)
HexEncodeToString(bytes) ==
    IF bytes = <<>> THEN ""
    ELSE SubSeq(HexLower, bytes[1] \div 16 + 1, bytes[1] \div 16 + 1)
         \o SubSeq(HexLower, (bytes[1] % 16) + 1, (bytes[1] % 16) + 1)
         \o HexEncodeToString(Tail(bytes))

Base64Alphabet == "ABCDEFGHIJKLMNOPQRSTUVWXYZabcdefghijklmnopqrstuvwxyz0123456789+/"

Base64Char(n) == SubSeq(Base64Alphabet, n + 1, n + 1)

\* base64.StdEncoding.EncodeToString
RECURSIVE Base64Encode(_)
Base64Encode(b) ==
    IF b = <<>> THEN ""
    ELSE IF Len(b) = 1
    THEN Base64Char(b[1] \div 4) \o Base64Char((b[1] % 4) * 16) \o "=="
    ELSE IF Len(b) = 2
    THEN Base64Char(b[1] \div 4) \o Base64Char((b[1] % 4) * 16 + b[2] \div 16)
         \o Base64Char((b[2] % 16) * 4) \o "="
    ELSE Base64Char(b[1] \div 4) \o Base64Char((b[1] % 4) * 16 + b[2] \div 16)
         \o Base64Char((b[2] % 16) * 4 + b[3] \div 64) \o Base64Char(b[3] % 64)
         \o Base64Encode(SubSeq(b, 4, Len(b)))

\* base64.StdEncoding.DecodeString with its error dropped: on corrupt input
\* the bytes decoded before the corrupt group
RECURSIVE Base64Decode(_)
Base64Decode(s) ==
    LET v(i) == Index(Base64Alphabet, SubSeq(s, i, i)) - 1
    IN IF Len(s) < 4 \/ v(1) < 0 \/ v(2) < 0 THEN <<>>
       ELSE IF SubSeq(s, 3, 4) = "==" THEN <<v(1) * 4 + v(2) \div 16>>
       ELSE IF v(3) < 0 THEN <<>>
       ELSE IF SubSeq(s, 4, 4) = "="
       THEN <<v(1) * 4 + v(2) \div 16, (v(2) % 16) * 16 + v(3) \div 4>>
       ELSE IF v(4) < 0 THEN <<>>
       ELSE <<v(1) * 4 + v(2) \div 16, (v(2) % 16) * 16 + v(3) \div 4,
              (v(3) % 4) * 64 + v(4)>>
            \o Base64Decode(SubSeq(s, 5, Len(s)))

\* the lines generateAPKINDEX prints for one package
ApkEntryText(pkg, checksum) ==
    "C:" \o checksum \o Newline
    \o "P:" \o pkg.Name \o Newline
    \o "V:" \o pkg.Version \o Newline
    \o "A:" \o pkg.Architecture \o Newline
    \o "S:" \o ToString(pkg.Size) \o Newline
    \o (IF "installed_size" \in DOMAIN pkg.Metadata
        THEN "I:" \o ToString(pkg.Metadata["installed_size"]) \o Newline ELSE "")
    \o (IF pkg.Description # "" THEN "T:" \o pkg.Description \o Newline ELSE "")

\* generateAPKINDEX, byte for byte
RECURSIVE generateAPKINDEXText(_)
generateAPKINDEXText(packages) ==
    IF packages = <<>> THEN [err |-> NoErr, data |-> ""]
    ELSE LET pkg == Head(packages)
             sha1Bytes == HexDecodeString(pkg.SHA1Sum)
             rest == generateAPKINDEXText(Tail(packages))
         IN IF sha1Bytes.err # NoErr THEN [err |-> "failed to decode SHA1", data |-> ""]
            ELSE IF rest.err # NoErr THEN rest
            ELSE [err |-> NoErr,
                  data |-> ApkEntryText(pkg, "Q1" \o Base64Encode(sha1Bytes.bytes))
                           \o (IF Tail(packages) # <<>> THEN Newline ELSE "")
                           \o rest.data]

\* the switch of parseAPKINDEXContent on the letter of a line
ApkSetField(pkg, field, value) ==
    CASE field = "C" -> IF Len(value) >= 2 /\ SubSeq(value, 1, 2) = "Q1"
                        THEN [pkg EXCEPT !.SHA1Sum =
                                 HexEncodeToString(Base64Decode(SubSeq(value, 3, Len(value))))]
                        ELSE pkg
      [] field = "P" -> [pkg EXCEPT !.Name = value]
      [] field = "V" -> [pkg EXCEPT !.Version = value]
      [] field = "A" -> [pkg EXCEPT !.Architecture = value]
      [] field = "S" -> [pkg EXCEPT !.Size = ParseInt(value)]
      [] field = "I" -> [pkg EXCEPT !.Metadata = ("installed_size" :> ParseInt(value)) @@ @]
      [] field = "T" -> [pkg EXCEPT !.Description = value]
      [] OTHER -> pkg

\* the loop of parseAPKINDEXContent; currentPkg is <<>> for nil
RECURSIVE parseAPKINDEXLines(_, _, _)
parseAPKINDEXLines(lines, packages, currentPkg) ==
    IF lines = <<>> THEN packages \o currentPkg
    ELSE LET line == Head(lines)
             started == IF currentPkg = <<>> THEN Package("", "", "", NoMetadata, "")
                        ELSE currentPkg[1]
         IN IF line = "" THEN parseAPKINDEXLines(Tail(lines), packages \o currentPkg, <<>>)
            ELSE IF Len(line) < 2 \/ SubSeq(line, 2, 2) # ":"
            THEN parseAPKINDEXLines(Tail(lines), packages, currentPkg)
            ELSE parseAPKINDEXLines(Tail(lines), packages,
                     <<ApkSetField(started, SubSeq(line, 1, 1), SubSeq(line, 3, Len(line)))>>)

parseAPKINDEXContent(data) ==
    LET packages == parseAPKINDEXLines(ScanLines(data), <<>>, <<>>)
    IN [i \in DOMAIN packages |->
           [packages[i] EXCEPT !.Filename = packages[i].Name \o "-" \o packages[i].Version
                                            \o ".apk"]]

\* parseAPKINDEX of the bytes of an APKINDEX.tar.gz
parseAPKINDEXArchive(archive) ==
    IF archive.APKINDEX = "" THEN [err |-> "APKINDEX not found in tar", packages |-> <<>>]
    ELSE [err |-> NoErr, packages |-> parseAPKINDEXContent(archive.APKINDEX)]

(***************************************************************************)
(* SpecApkIndex: the APKINDEX.tar.gz of a list of packages is created and  *)
(* read back.                                                              *)
(***************************************************************************)
\* SHA1 digests as utils.CalculateChecksums prints them
ValidSHA1s == {"da39a3ee5e6b4b0d3255bfef95601890afd80709",
               "2fd4e1c67a2d28fced849ee1bb76e7391b93eb12"}

\* digests hex.DecodeString refuses
InvalidSHA1s == {"sha1:2fd4e1", "2fd4e"}

ApkPackages(name) ==
    {[Package(name, "1.0-r0", "x86_64", metadata, name \o "-1.0-r0.apk")
         EXCEPT !.Size = size, !.SHA1Sum = sha1, !.Description = description] :
        metadata \in {NoMetadata, [installed_size |-> 4096]},
        size \in {0, 1204},
        sha1 \in ValidSHA1s \cup InvalidSHA1s,
        description \in {"", "a tool", "C:Q1 is the checksum: text"}}

InitApkIndex ==
    /\ fs = <<>>
    /\ clock = 0
    /\ pc = "generate"
    /\ \E foo \in ApkPackages("foo"), bar \in ApkPackages("bar") :
          /\ bar.Size = 0 /\ bar.Metadata = NoMetadata /\ bar.Description = "a tool"
          /\ args \in {[op |-> "apk.index", packages |-> <<foo>>],
                       [op |-> "apk.index", packages |-> <<foo, bar>>]}
    /\ ret = NoRet

\* generateAPKINDEX and createAPKINDEXTarGz of generateForArch
ApkWriteIndex ==
    /\ pc = "generate"
    /\ LET apkindex == generateAPKINDEXText(args.packages)
       IN IF apkindex.err # NoErr
          THEN /\ ret' = [op |-> "generateAPKINDEX", err |-> apkindex.err]
               /\ pc' = "failed"
          ELSE /\ ret' = [op |-> "createAPKINDEXTarGz", err |-> NoErr,
                          archive |-> createAPKINDEXTarGz("Alpine Package Index for x86_64",
                                                          apkindex.data)]
               /\ pc' = "read"
    /\ UNCHANGED <<fs, clock, args>>

ApkReadIndex ==
    /\ pc = "read"
    /\ LET parsed == parseAPKINDEXArchive(ret.archive)
       IN ret' = [op |-> "parseAPKINDEX", err |-> parsed.err, archive |-> ret.archive,
                  parsed |-> parsed.packages]
    /\ pc' = "parsed"
    /\ UNCHANGED <<fs, clock, args>>

NextApkIndex == ApkWriteIndex \/ ApkReadIndex

SpecApkIndex == InitApkIndex /\ [][NextApkIndex]_vars


(***************************************************************************)
(* Cleartext signing as text.  SignCleartext of gpg.go hands the data to   *)
(* gpg --clearsign; what that does to the message is written down in the   *)
(* same file by canonicalizeText, dashEscape and                           *)
(* createCleartextSignature, which are translated here.                    *)
(***************************************************************************)
CRLF == "\r\n"

\* bytes.Split(data, "\n")
RECURSIVE BytesSplit(_)
BytesSplit(data) ==
    LET n == Index(data, Newline)
    IN IF n = 0 THEN <<data>>
       ELSE <<SubSeq(data, 1, n - 1)>> \o BytesSplit(SubSeq(data, n + 1, Len(data)))

\* bytes.TrimRight(line, " \t\r")
RECURSIVE TrimRight(_)
TrimRight(line) ==
    IF line # "" /\ SubSeq(line, Len(line), Len(line)) \in {" ", "\t", "\r"}
    THEN TrimRight(SubSeq(line, 1, Len(line) - 1))
    ELSE line

\* the loop of canonicalizeText from line i on
RECURSIVE canonicalizeLines(_, _)
canonicalizeLines(lines, i) ==
    IF i > Len(lines) THEN ""
    ELSE TrimRight(lines[i])
         \o (IF i < Len(lines) \/ TrimRight(lines[i]) # "" THEN CRLF ELSE "")
         \o canonicalizeLines(lines, i + 1)

canonicalizeText(data) == canonicalizeLines(BytesSplit(data), 1)

\* the loop of dashEscape from line i on
RECURSIVE dashEscapeLines(_, _)
dashEscapeLines(lines, i) ==
    IF i > Len(lines) THEN ""
    ELSE (IF lines[i] # "" /\ SubSeq(lines[i], 1, 1) = "-" THEN "- " ELSE "")
         \o lines[i]
         \o (IF i < Len(lines) THEN Newline ELSE "")
         \o dashEscapeLines(lines, i + 1)

\* the message written as it is, no line escaped
dashEscapeNone(data) == data

dashEscape(data) == dashEscapeLines(BytesSplit(data), 1)

\* createCleartextSignature: the header, the message, the signature
createCleartextSignature(message, signature) ==
    [kind |-> "clearsigned",
     text |-> BeginSignedMessage \o Newline \o "Hash: SHA512" \o Newline \o Newline
              \o message \o (IF HasSuffix(message, Newline) THEN "" ELSE Newline),
     signature |-> signature]

\* GPGSigner.SignCleartext on text: gpg --clearsign of the data
ClearsignText(signer, data) ==
    IF ~signer.clearsign THEN [err |-> "failed to sign with GPG", data |-> NoData]
    ELSE [err |-> NoErr,
          data |-> createCleartextSignature(dashEscape(data),
                       [kind |-> "signature", by |-> signer.id,
                        over |-> canonicalizeText(data)])]

(***************************************************************************)
(* SpecClearsign: a message, given as its lines, each a text and the       *)
(* spaces and tabs that trail it, is cleartext-signed.                     *)
(***************************************************************************)
\* the most lines of a message
MaxLines == 2

LineTexts == {"Origin: repo", "-----BEGIN", "- item", ""}

Trailings == {"", " ", "\t "}

RECURSIVE MessageText(_, _)
MessageText(lines, final) ==
    IF lines = <<>> THEN ""
    ELSE Head(lines)[1] \o Head(lines)[2]
         \o (IF Len(lines) > 1 \/ final THEN Newline ELSE "")
         \o MessageText(Tail(lines), final)

InitClearsign ==
    /\ fs = <<>>
    /\ clock = 0
    /\ pc = "sign"
    /\ \E lines \in SeqsUpTo(LineTexts \X Trailings, MaxLines) \ {<<>>},
          final \in BOOLEAN,
          signer \in {KeyFile("good", TRUE, TRUE), KeyFile("protected", TRUE, FALSE)} :
          \* a last line that is not ended has a character
          /\ final \/ lines[Len(lines)] # <<"", "">>
          /\ args = [op |-> "SignCleartext", lines |-> lines, final |-> final,
                     data |-> MessageText(lines, final), signer |-> signer]
    /\ ret = NoRet

CallSignCleartext ==
    /\ pc = "sign"
    /\ LET signed == ClearsignText(args.signer, args.data)
       IN /\ ret' = [op |-> "SignCleartext", err |-> signed.err, signed |-> signed.data]
          /\ pc' = IF signed.err = NoErr THEN "signed" ELSE "failed"
    /\ UNCHANGED <<fs, clock, args>>

NextClearsign == CallSignCleartext

SpecClearsign == InitClearsign /\ [][NextClearsign]_vars


(***************************************************************************)
(* SpecCancel: one run of runGeneration with the callbacks of              *)
(* filepath.Walk as steps, and a context that is cancelled at any moment   *)
(* of the run.  args.ctxDoneAt is the step of the run at which the context *)
(* was cancelled, "" while it is not.                                      *)
(***************************************************************************)
ContextCanceled == "context canceled"

\* what filepath.Walk visits below dir: the directories and the files
WalkEntries(fsys, dirs, dir) ==
    WalkOrder({p \in dirs \cup DOMAIN fsys : IsPrefix(Resolve(dir), p)})

InitCancel ==
    /\ fs = RunDisk
    /\ clock = 0
    /\ pc = "walk"
    /\ \E inputDir \in {In, In \o <<"c">>, Mixed},
          keys \in {<<NoKey, NoKey>>, <<Keys \o <<"good.asc">>, Keys \o <<"rsa.pem">> >>} :
          args = [op |-> "runGeneration",
                  config |-> RepositoryConfig(inputDir, Out, RunArches, keys[1], keys[2],
                                              FALSE),
                  fs0 |-> fs, walk |-> WalkEntries(RunDisk, RunDirs, inputDir),
                  scanned |-> <<>>, ctxDoneAt |-> "",
                  packagesByType |-> <<>>, gpgSigner |-> NoSigner,
                  rsaSigner |-> NoSigner, todo |-> {}]
    /\ ret = NoRet

\* the context is cancelled, or its deadline passes
CancelContext ==
    /\ pc \in {"walk", "parse", "signers", "generate"}
    /\ args.ctxDoneAt = ""
    /\ args' = [args EXCEPT !.ctxDoneAt = pc]
    /\ UNCHANGED <<fs, clock, pc, ret>>

\* the callback going on with the walk whatever the context says
WalkCallbackNoCheck ==
    /\ pc = "walk"
    /\ LET path == Head(args.walk)
           isPackage == Exists(fs, path) /\ DetectType(Read(fs, path)) # "unknown"
           packages == IF isPackage
                       THEN Append(args.scanned,
                                   [Path |-> path, Type |-> DetectType(Read(fs, path))])
                       ELSE args.scanned
       IN /\ args' = [args EXCEPT !.walk = Tail(@), !.scanned = packages]
          /\ IF Tail(args.walk) # <<>> THEN pc' = pc /\ ret' = ret
             ELSE IF packages = <<>>
             THEN pc' = "done" /\ ret' = Returned(NoErr, NoErr)
             ELSE pc' = "parse" /\ ret' = ret
    /\ UNCHANGED <<fs, clock>>

\* one call of the function Scan hands to filepath.Walk, and the return of
\* Scan and the check of step 1 after the last one
WalkCallback ==
    /\ pc = "walk"
    /\ LET path == Head(args.walk)
           isPackage == Exists(fs, path) /\ DetectType(Read(fs, path)) # "unknown"
           packages == IF isPackage
                       THEN Append(args.scanned,
                                   [Path |-> path, Type |-> DetectType(Read(fs, path))])
                       ELSE args.scanned
       IN IF args.ctxDoneAt # ""
          THEN /\ pc' = "done"
               /\ ret' = Returned(ErrFileOp, ContextCanceled)
               /\ args' = [args EXCEPT !.walk = <<>>, !.scanned = <<>>]
          ELSE /\ args' = [args EXCEPT !.walk = Tail(@), !.scanned = packages]
               /\ IF Tail(args.walk) # <<>> THEN pc' = pc /\ ret' = ret
                  ELSE IF packages = <<>>
                  THEN pc' = "done" /\ ret' = Returned(NoErr, NoErr)
                  ELSE pc' = "parse" /\ ret' = ret
    /\ UNCHANGED <<fs, clock>>

\* step 2: the scanned packages are parsed
ParseScanned ==
    /\ pc = "parse"
    /\ LET parsed == SelectSeq(args.scanned, LAMBDA s : ParseError(fs, s.Path) = NoErr)
           types == {parsed[i].Type : i \in DOMAIN parsed}
           ofType(t) == SelectSeq(parsed, LAMBDA s : s.Type = t)
       IN args' = [args EXCEPT
                      !.packagesByType =
                          [t \in types |->
                              [i \in DOMAIN ofType(t) |-> ParsePackage(fs, ofType(t)[i].Path)]],
                      !.todo = types]
    /\ pc' = "signers"
    /\ UNCHANGED <<fs, clock, ret>>

NextCancel ==
    CancelContext \/ WalkCallback \/ ParseScanned \/ InitSigners \/ RunGenerator \/ Succeed

SpecCancel == InitCancel /\ [][NextCancel]_vars


(***************************************************************************)
(* Several ecosystems, one output directory.  The files of the input       *)
(* directory have the names and the first bytes DetectPackageType looks    *)
(* at; every generator is run once on the packages of its type, the types  *)
(* taken in any order (runGeneration ranges over a Go map), and the run     *)
(* stops at the first Generate that fails.                                  *)
(***************************************************************************)
debMagic == "!<arch>"

rpmMagic == "edabeedb"

gzipMagic == "1f8b"

zstdMagic == "28b52ffd"

xzMagic == "fd377a585a00"

Contains(s, substr) == Index(s, substr) # 0

\* filepath.Ext: the suffix of the name from its last dot on
Ext(name) ==
    LET dots == {i \in 1..Len(name) : SubSeq(name, i, i) = "."}
    IN IF dots = {} THEN ""
       ELSE SubSeq(name, CHOOSE i \in dots : \A j \in dots : j <= i, Len(name))

\* scanner.DetectPackageType, of the magic bytes and the name of a file
DetectPackageType(header, basename) ==
    IF header = debMagic \/ Ext(basename) = ".deb" THEN TypeDeb
    ELSE IF header = rpmMagic \/ Ext(basename) = ".rpm" THEN TypeRpm
    ELSE IF header = gzipMagic /\ Ext(basename) = ".apk" THEN TypeApk
    ELSE IF /\ Contains(basename, ".pkg.tar.")
            /\ \/ header = zstdMagic \/ HasSuffix(basename, ".pkg.tar.zst")
               \/ header = xzMagic \/ HasSuffix(basename, ".pkg.tar.xz")
               \/ header = gzipMagic /\ HasSuffix(basename, ".pkg.tar.gz")
               \/ HasSuffix(basename, ".pkg.tar")
    THEN TypePacman
    ELSE IF Contains(basename, ".bottle.tar.gz") \/ Contains(basename, ".bottle.tar")
    THEN TypeHomebrewBottle
    ELSE "unknown"

\* whether ParsePackage of the type reads the file: the archive has to be
\* what the parser opens it as, and pacman's extractPKGINFO picks the
\* decompressor by the suffix of the path
ParserReads(pkgType, header, basename) ==
    CASE pkgType = TypeDeb -> header = debMagic
      [] pkgType = TypeRpm -> header = rpmMagic
      [] pkgType = TypeApk -> header = gzipMagic
      [] pkgType = TypePacman ->
            \/ HasSuffix(basename, ".pkg.tar.zst") /\ header = zstdMagic
            \/ HasSuffix(basename, ".pkg.tar.xz") /\ header = xzMagic
            \/ HasSuffix(basename, ".pkg.tar.gz") /\ header = gzipMagic
      [] OTHER -> FALSE

\* names a file of the input directory may have, the names the generators
\* give their own files among them
EcosystemFileNames ==
    {"tool.apk", "tool.pkg.tar.zst", "tool.pkg.tar.apk", "APKINDEX.tar.gz",
     "repogen-repository.db.tar.zst"}

EcosystemMagics == {gzipMagic, zstdMagic, debMagic}

\* the configured architectures; a package file may be of another one
EcosystemArches == <<"amd64", "x86_64", "aarch64">>

\* a file of the input directory: its control data say name "tool"
EcosystemFile(header, basename, arch) ==
    [header |-> header]
    @@ PackageFile(DetectPackageType(header, basename), "tool", "1.0", arch, 0)

EcosystemDisk(header1, name1, header2, name2, arch2, obstructed) ==
    (In \o <<"a", name1>>) :> EcosystemFile(header1, name1, "x86_64")
    @@ (In \o <<"b", name2>>) :> EcosystemFile(header2, name2, arch2)
    @@ (In \o <<"c", "foo_1.0_amd64.deb">>)
           :> EcosystemFile(debMagic, "foo_1.0_amd64.deb", "amd64")
    @@ (In \o <<"c", "baz-3.0.rpm">>)
           :> EcosystemFile(rpmMagic, "baz-3.0.rpm", "x86_64")
    @@ (Keys \o <<"good.asc">>) :> KeyFile("good", TRUE, TRUE)
    @@ (Keys \o <<"rsa.pem">>) :> KeyFile("rsa", TRUE, FALSE)
    @@ (IF obstructed THEN (Out \o <<"x86_64">>) :> Raw(<<0>>) ELSE <<>>)

\* the packages of a type that the scan finds below In and the parser reads
EcosystemPackages(fsys, pkgType) ==
    LET found == {p \in Below(fsys, In) :
                     /\ "header" \in DOMAIN fsys[p]
                     /\ DetectPackageType(fsys[p].header, Base(p)) = pkgType
                     /\ ParserReads(pkgType, fsys[p].header, Base(p))}
    IN [i \in DOMAIN WalkOrder(found) |-> ParsePackage(fsys, WalkOrder(found)[i])]

EcosystemTypes == {TypeDeb, TypeRpm, TypeApk, TypePacman}

InitEcosystems ==
    /\ \E header1 \in EcosystemMagics, name1 \in EcosystemFileNames,
          header2 \in EcosystemMagics, name2 \in EcosystemFileNames,
          arch2 \in {"x86_64", "aarch64", "riscv64"}, obstructed \in BOOLEAN :
          LET disk == EcosystemDisk(header1, name1, header2, name2, arch2, obstructed)
              types == {t \in EcosystemTypes : EcosystemPackages(disk, t) # <<>>}
          IN /\ fs = disk
             /\ args = [op |-> "ecosystems",
                        config |-> RepositoryConfig(In, Out, EcosystemArches,
                                                    Keys \o <<"good.asc">>,
                                                    Keys \o <<"rsa.pem">>, FALSE),
                        fs0 |-> disk,
                        packagesByType |-> [t \in types |-> EcosystemPackages(disk, t)],
                        gpgSigner |-> NewSigner(disk, Keys \o <<"good.asc">>).signer,
                        rsaSigner |-> NewSigner(disk, Keys \o <<"rsa.pem">>).signer,
                        todo |-> types,
                        written |-> [t \in types |-> {}]]
    /\ clock = 0
    /\ pc = "ecosystems"
    /\ ret = NoRet

\* the outcomes of the Generate of the generator of a type, pacman's too
GenerateOf(pkgType, run, fsys) ==
    IF pkgType = TypePacman
    THEN PacmanGenerate(run.config, run.packagesByType[pkgType], run.gpgSigner, fsys)
    ELSE Generate(pkgType, run.config, run.packagesByType[pkgType],
                  run.gpgSigner, run.rsaSigner, fsys, 0)

\* the paths a step has created or given another content
Changed(before, after) ==
    {p \in DOMAIN after : p \notin DOMAIN before \/ after[p] # before[p]}

\* one round of the loop over the types: the Generate of a type not yet done
GenerateEcosystem ==
    /\ pc = "ecosystems"
    /\ \E pkgType \in args.todo :
          \E generated \in GenerateOf(pkgType, args, fs) :
             /\ fs' = generated.fs
             /\ args' = [args EXCEPT !.todo = @ \ {pkgType},
                                     !.written[pkgType] = Changed(fs, generated.fs)]
             /\ IF generated.err # NoErr
                THEN pc' = "failed" /\ ret' = Returned(ErrMetadataGen, generated.err)
                ELSE pc' = pc /\ ret' = ret
    /\ UNCHANGED clock

\* every type is done
FinishEcosystems ==
    /\ pc = "ecosystems"
    /\ args.todo = {}
    /\ pc' = "generated"
    /\ ret' = Returned(NoErr, NoErr)
    /\ UNCHANGED <<fs, clock, args>>

NextEcosystems == GenerateEcosystem \/ FinishEcosystems

SpecEcosystems == InitEcosystems /\ [][NextEcosystems]_vars

\* the trees that running the generators of the types one after another in
\* the given order, up to the first failure, can leave
RECURSIVE SequentialRuns(_, _, _)
SequentialRuns(order, run, fsys) ==
    IF order = <<>> THEN {fsys}
    ELSE UNION { IF generated.err # NoErr THEN {generated.fs}
                 ELSE SequentialRuns(Tail(order), run, generated.fs)
                 : generated \in GenerateOf(Head(order), run, fsys) }

\* the orders in which the types of a set can be taken
Orders(types) ==
    {order \in [1..Cardinality(types) -> types] :
        \A i, j \in DOMAIN order : i # j => order[i] # order[j]}


(***************************************************************************)
(* extractControl of package deb, read by read.  A .deb file is the 8      *)
(* bytes of the ar magic and then members, each a header of 60 bytes that  *)
(* declares a name and a size, followed by its data; the size a header     *)
(* declares need not be the length of the data that follow it.             *)
(***************************************************************************)
ArMagicLen == 8

ArHeaderLen == 60

MaxMembers == 2

\* the header reads after which a run is no longer followed
MaxHeaderReads == 4

ArNames == {"debian-binary", "control.tar.gz", "data.tar.xz"}

\* sizes a header declares: fmt.Sscanf with %d reads a sign
ArSizes == {0, 1, 2, 200, 0 - 60, 0 - 61, 0 - 200}

ArDataLens == {0, 1, 2}

ArMembers == [name : ArNames, size : ArSizes, dataLen : ArDataLens]

ArFile(members) == [kind |-> "ar", members |-> members]

RECURSIVE ArLength(_)
ArLength(members) ==
    IF members = <<>> THEN ArMagicLen
    ELSE ArLength(SubSeq(members, 1, Len(members) - 1))
         + ArHeaderLen + members[Len(members)].dataLen

\* the offset of the header of member i
ArOffset(members, i) == ArLength(SubSeq(members, 1, i - 1))

HasPrefix(s, prefix) == Len(s) >= Len(prefix) /\ SubSeq(s, 1, Len(prefix)) = prefix

\* what the 60 bytes at an offset say when read as a header: the header of
\* the member that starts there, and for bytes that are not a header no
\* name of interest and whatever number the size field holds
ArHeaderAt(members, offset) ==
    IF \E i \in DOMAIN members : ArOffset(members, i) = offset
    THEN {[name |-> members[i].name, size |-> members[i].size] :
             i \in {j \in DOMAIN members : ArOffset(members, j) = offset}}
    ELSE {[name |-> "", size |-> size] : size \in ArSizes}

ArPath == In \o <<"a", "crafted.deb">>

InitAr ==
    /\ \E n \in 0..MaxMembers : \E members \in [1..n -> ArMembers] :
          fs = (ArPath :> ArFile(members))
    /\ clock = 0
    /\ pc = "ar"
    /\ args = [op |-> "extractControl", path |-> ArPath, offset |-> ArMagicLen,
               visited |-> <<>>]
    /\ ret = NoRet

ArReturn(data, err) == [op |-> "extractControl", data |-> data, err |-> err]

\* one round of the loop of extractControl, with its header bytes read as
\* the given header
ArRound(header, length) ==
    IF HasPrefix(header.name, "control.tar")
    THEN /\ pc' = "returned"
         /\ args' = [args EXCEPT !.visited = Append(@, args.offset)]
         /\ ret' = IF header.size < 0
                   THEN ArReturn("", "panic: makeslice: len out of range")
                   ELSE IF args.offset + ArHeaderLen + header.size > length
                   THEN ArReturn("", "unexpected EOF")
                   ELSE ArReturn("control", NoErr)
    ELSE LET sought == args.offset + ArHeaderLen + header.size
         IN IF sought < 0
            THEN /\ pc' = "returned"
                 /\ args' = [args EXCEPT !.visited = Append(@, args.offset)]
                 /\ ret' = ArReturn("", "seek: invalid argument")
            ELSE /\ pc' = pc
                 /\ args' = [args EXCEPT !.visited = Append(@, args.offset),
                                         !.offset = IF header.size % 2 # 0
                                                    THEN sought + 1 ELSE sought]
                 /\ ret' = ret

\* one round of the loop: read 60 bytes, then return the control archive or
\* seek past the data of the member
ReadArHeader ==
    /\ pc = "ar"
    /\ Len(args.visited) < MaxHeaderReads
    /\ LET members == fs[args.path].members
           length == ArLength(members)
       IN IF args.offset >= length
          THEN /\ pc' = "returned"
               /\ ret' = ArReturn("", "control.tar not found in package")
               /\ args' = args
          ELSE IF length - args.offset < ArHeaderLen
          THEN /\ pc' = "returned"
               /\ ret' = ArReturn("", "failed to read ar header")
               /\ args' = args
          ELSE \E header \in ArHeaderAt(members, args.offset) :
                  ArRound(header, length)
    /\ UNCHANGED <<fs, clock>>

NextAr == ReadArHeader

SpecAr == InitAr /\ [][NextAr]_vars


(***************************************************************************)
(* Generation over a repository that is already published: package files   *)
(* lie in the architecture directory of the output directory, where an     *)
(* earlier run put them, and are handed to Generate again from there (the  *)
(* input directory is the output directory), alone or with a new file of   *)
(* the input directory.  CopyFile is also called on its own.               *)
(***************************************************************************)
PublishedApk == Out \o <<"x86_64", "tool-1.0.apk">>

PublishedPacman == Out \o <<"x86_64", "tool-1.0-1-x86_64.pkg.tar.zst">>

IncomingApk == In \o <<"c", "bar-2.0.apk">>

IncomingPacman == PacmanIn \o <<"alpha-1.0-1-x86_64.pkg.tar.zst">>

InPlaceDisk ==
    PublishedApk :> PackageFile(TypeApk, "tool", "1.0", "x86_64", 0)
    @@ PublishedPacman :> PackageFile(TypePacman, "tool", "1.0-1", "x86_64", 0)
    @@ RunDisk
    @@ PacmanDisk

\* the package files a call of Generate is given, by type
InPlaceFiles ==
    TypeApk :> {<<PublishedApk>>, <<IncomingApk>>, <<IncomingApk, PublishedApk>>}
    @@ TypePacman :> {<<PublishedPacman>>, <<IncomingPacman>>,
                      <<IncomingPacman, PublishedPacman>>}

InitInPlace ==
    /\ fs = InPlaceDisk
    /\ clock = 0
    /\ pc = "published"
    /\ args = NoArgs
    /\ ret = NoRet

\* Generate of the apk or the pacman generator on parsed package files
GenerateInPlace ==
    /\ pc = "published"
    /\ clock < MaxRuns
    /\ \E pkgType \in DOMAIN InPlaceFiles : \E files \in InPlaceFiles[pkgType] :
       \E keys \in {<<NoKey, NoKey>>, <<Keys \o <<"good.asc">>, Keys \o <<"rsa.pem">> >>} :
          LET parsed(i) == IF Exists(fs, files[i]) /\ ParseError(fs, files[i]) = NoErr
                           THEN ParsePackage(fs, files[i])
                           ELSE Package("", "", "", NoMetadata, files[i])
              run == [op |-> "Generate", pkgType |-> pkgType,
                      config |-> RepositoryConfig(Out, Out, <<"x86_64">>, keys[1], keys[2],
                                                  FALSE),
                      packagesByType |->
                          (pkgType :> [i \in DOMAIN files |-> parsed(i)]),
                      gpgSigner |-> NewSigner(fs, keys[1]).signer,
                      rsaSigner |-> NewSigner(fs, keys[2]).signer,
                      fs0 |-> fs]
          IN /\ \A i \in DOMAIN files :
                   Exists(fs, files[i]) /\ ParseError(fs, files[i]) = NoErr
             /\ \E generated \in GenerateOf(pkgType, run, fs) :
                   /\ fs' = generated.fs
                   /\ ret' = [op |-> "Generate", err |-> generated.err]
                   /\ args' = run
    /\ clock' = clock + 1
    /\ pc' = pc

\* utils.CopyFile(src, dst) on two files of the disk, the same file included
CopyFileInPlace ==
    /\ pc = "published"
    /\ clock < MaxRuns
    /\ \E src \in {PublishedApk, IncomingApk, Out \o <<".", "x86_64", "tool-1.0.apk">>},
          dst \in {PublishedApk, Out \o <<"x86_64", "bar-2.0.apk">>} :
          LET copied == CopyFile(fs, src, dst)
          IN /\ fs' = copied.fs
             /\ ret' = [op |-> "CopyFile", err |-> copied.err]
             /\ args' = [op |-> "CopyFile", src |-> src, dst |-> dst, fs0 |-> fs]
    /\ clock' = clock + 1
    /\ pc' = pc

NextInPlace == GenerateInPlace \/ CopyFileInPlace

SpecInPlace == InitInPlace /\ [][NextInPlace]_vars


(***************************************************************************)
(* DetectConflicts and Merge on packages whose fields hold what the        *)
(* parsers take from a package file: any text, a colon included (a Debian  *)
(* or Pacman version with an epoch is "1:2.0"; no parser and no            *)
(* ValidatePackages rejects a colon in a name or an architecture).         *)
(***************************************************************************)
IdentityNames == {"pkga", "pkga:1"}

IdentityVersions == {"2.0", "1:2.0"}

IdentityReleases == {NoMetadata, [k \in {"Release"} |-> "1"], [k \in {"Release"} |-> "2"]}

IdentityUniverse ==
    {Package(name, version, "x86_64", metadata, <<"in", "pkg">>) :
        name \in IdentityNames, version \in IdentityVersions,
        metadata \in IdentityReleases}

InitIdentity ==
    /\ fs = <<>>
    /\ clock = 0
    /\ pc = "call"
    /\ args \in [existing : [1..1 -> IdentityUniverse],
                 incoming : [1..1 -> IdentityUniverse],
                 pkgType : MergeTypes \cup {TypePacman}]
    /\ ret = NoRet

SpecIdentity == InitIdentity /\ [][NextMerge]_vars


(***************************************************************************)
(* parseControl on control files with a Depends field: the items on one    *)
(* line or the last of them on a continuation line, and after the field    *)
(* blank lines, lines without a colon, or other fields.                    *)
(***************************************************************************)
DependsItems ==
    {<<"liba">>, <<"liba", "libb (>= 1.0)">>, <<"liba", "libb (>= 1.0)", "libc">>}

RECURSIVE JoinItems(_)
JoinItems(items) ==
    IF Len(items) = 1 THEN items[1] ELSE items[1] \o ", " \o JoinItems(Tail(items))

\* the Depends field on one line, or folded before its last item
DependsLines(items, folded) ==
    IF folded /\ Len(items) > 1
    THEN <<"Depends: " \o JoinItems(SubSeq(items, 1, Len(items) - 1)) \o ",",
           " " \o items[Len(items)]>>
    ELSE <<"Depends: " \o JoinItems(items)>>

\* the lines that follow the Depends field
FollowingLines == {"", "no colon here", "Section: utils", "Version: 1.0"}

MaxFollowing == 2

InitControl ==
    /\ fs = <<>>
    /\ clock = 0
    /\ pc = "control"
    /\ \E items \in DependsItems, folded \in BOOLEAN,
          following \in SeqsUpTo(FollowingLines, MaxFollowing) :
          args = [op |-> "parseControl", depends |-> items, following |-> following,
                  data |-> JoinLines(<<"Package: foo">> \o DependsLines(items, folded)
                                     \o following)]
    /\ ret = NoRet

\* parseControl(data)
CallParseControl ==
    /\ pc = "control"
    /\ ret' = [op |-> "parseControl", pkg |-> parseControl(args.data)]
    /\ pc' = "parsed"
    /\ UNCHANGED <<fs, clock, args>>

NextControl == CallParseControl

SpecControl == InitControl /\ [][NextControl]_vars


(***************************************************************************)
(*                               Claims                                    *)
(***************************************************************************)

\* DetectConflicts keeps exactly the incoming packages whose identity is the
\* identity of an existing package, in their order; it is empty exactly when
\* no identity occurs in both lists (the part of C1 that is about the
\* function itself).
SharedIdentity(pkg, existing, pkgType) ==
    \E i \in DOMAIN existing :
        PackageIdentity(existing[i], pkgType) = PackageIdentity(pkg, pkgType)

IsSubsequenceAt(sub, whole, keep) ==
    \* sub lists the elements of whole at the positions of keep, in order
    /\ Len(sub) = Cardinality(keep)
    /\ \A i \in keep : sub[Cardinality({j \in keep : j <= i})] = whole[i]

DetectConflictsExact ==
    ret.op = "DetectConflicts" =>
        LET keep == {i \in DOMAIN args.incoming :
                        SharedIdentity(args.incoming[i], args.existing, args.pkgType)}
        IN /\ IsSubsequenceAt(ret.conflicts, args.incoming, keep)
           /\ (ret.conflicts = <<>>) <=>
                 ~\E i \in DOMAIN args.incoming, j \in DOMAIN args.existing :
                     PackageIdentity(args.incoming[i], args.pkgType)
                         = PackageIdentity(args.existing[j], args.pkgType)

\* C7: merging X with an empty incoming list succeeds and yields exactly X,
\* and every merge that succeeds yields the existing packages followed by the
\* incoming ones, none dropped, duplicated or altered.
C7_MergeIsConcatenation ==
    ret.op = "Merge" =>
        /\ (args.incoming = <<>> =>
                ret.merge.ok /\ ret.merge.packages = args.existing)
        /\ (ret.merge.ok =>
                /\ Len(ret.merge.packages) = Len(args.existing) + Len(args.incoming)
                /\ \A i \in DOMAIN args.existing :
                       ret.merge.packages[i] = args.existing[i]
                /\ \A i \in DOMAIN args.incoming :
                       ret.merge.packages[Len(args.existing) + i] = args.incoming[i])

C7_Witness ==
    /\ ret.op = "Merge"
    /\ args.incoming = <<>>
    /\ Len(args.existing) = 2
    /\ ret.merge.ok
    /\ ret.merge.packages = args.existing

\* C8: ShouldCopyPackage takes the source at the package's Filename as given
\* when stat finds a file there and otherwise at outputDir joined with
\* Filename; when there is no file at either place it returns needsCopy =
\* false and no error.
C8_SourceResolution ==
    (ret.op = "ShouldCopyPackage" /\ pc = "copy") =>
        LET asGiven == Clean(args.pkg.Filename)
            below == Join(args.outputDir, args.pkg.Filename)
        IN /\ Stat(fs, args.faults, asGiven) = "ok" => ret.srcPath = asGiven
           /\ Stat(fs, args.faults, asGiven) # "ok" => ret.srcPath = below
           /\ (Stat(fs, args.faults, asGiven) = "notexist"
                  /\ Stat(fs, args.faults, below) = "notexist")
              => (~ret.needsCopy /\ ret.err = NoErr)

C8_Witness ==
    /\ ret.op = "ShouldCopyPackage"
    /\ pc = "copy"
    /\ ~Exists(fs, args.pkg.Filename)
    /\ ~Exists(fs, Join(args.outputDir, args.pkg.Filename))
    /\ Exists(fs, args.dstPath)
    /\ args.faults = NoFaults
    /\ ~ret.needsCopy
    /\ ret.err = NoErr

\* C9 as claimed: with the source file present, a copy is reported needed
\* exactly when the destination is absent or differs from the source in size
\* or in checksum.
C9_CopyIffSourceDiffers ==
    (ret.op = "ShouldCopyPackage" /\ pc = "copy" /\ args.faults = NoFaults
        /\ Exists(fs, ret.srcPath)) =>
        (ret.needsCopy <=>
            \/ ~Exists(fs, ret.dstPath)
            \/ SizeOf(Read(fs, ret.srcPath)) # SizeOf(Read(fs, ret.dstPath))
            \/ Hash("sha256", Read(fs, ret.srcPath))
                  # Hash("sha256", Read(fs, ret.dstPath)))

\* C9 as amended: with the source file present and the destination
\* stat-able, a copy is reported needed exactly when the destination is
\* another path than the source and is absent, or has another size than the
\* source, or the package records a SHA256Sum and the destination's SHA256 is
\* not that recorded sum (or cannot be computed).
C9_CopyIffRecordedSumDiffers ==
    (ret.op = "ShouldCopyPackage" /\ pc = "copy"
        /\ Stat(fs, args.faults, ret.srcPath) = "ok"
        /\ Stat(fs, args.faults, ret.dstPath) # "error") =>
        /\ ret.err = NoErr
        /\ ret.needsCopy <=>
            /\ ret.srcPath # ret.dstPath
            /\ \/ ~Exists(fs, ret.dstPath)
               \/ SizeOf(Read(fs, ret.srcPath)) # SizeOf(Read(fs, ret.dstPath))
               \/ /\ args.pkg.SHA256Sum # NoSum
                  /\ \/ Resolve(ret.dstPath) \in args.faults.open
                     \/ args.pkg.SHA256Sum # Hash("sha256", Read(fs, ret.dstPath))

C9_Witness ==
    /\ ret.op = "ShouldCopyPackage"
    /\ pc = "copy"
    /\ args.faults = NoFaults
    /\ Exists(fs, ret.srcPath)
    /\ Exists(fs, ret.dstPath)
    /\ ret.srcPath # ret.dstPath
    /\ SizeOf(Read(fs, ret.srcPath)) = SizeOf(Read(fs, ret.dstPath))
    /\ Read(fs, ret.srcPath) # Read(fs, ret.dstPath)
    /\ args.pkg.SHA256Sum = Hash("sha256", Read(fs, ret.srcPath))
    /\ ret.needsCopy

\* The rest is about runs of the generate command.
DistsFile(name) == Out \o <<"dists", DefaultCodename, name>>

\* the Generate of a type has returned without error in the current run
Generated(pkgType) ==
    /\ pc \in {"generate", "done"}
    /\ pkgType \in DOMAIN args.packagesByType
    /\ pkgType \notin args.todo

\* an incoming package of the current run has the identity of a package of
\* the index that was in the output directory when the run started
ConflictingRun ==
    /\ pc \in {"signers", "generate", "done"}
    /\ args.config.Incremental
    /\ \E pkgType \in DOMAIN args.packagesByType :
          DetectConflicts(ParseExistingMetadata(pkgType, args.config, args.fs0).packages,
                          args.packagesByType[pkgType], pkgType) # <<>>

\* the output directory holds what it held when the run started
OutputUntouched ==
    /\ Below(fs, Out) = Below(args.fs0, Out)
    /\ \A p \in Below(fs, Out) : fs[p] = args.fs0[p]

\* C1: a non-empty DetectConflicts result makes incremental generation
\* fail: an incremental run whose incoming packages conflict with the
\* existing index does not end in success.  (That DetectConflicts returns
\* exactly the incoming packages with an existing identity is
\* DetectConflictsExact.)
C1_ConflictFailsIncrementalRun ==
    (ConflictingRun /\ pc = "done") => ret.err # NoErr

\* C2: an incremental run with an incoming package of an existing identity
\* ends with an error, and at no point of the run is a file of the output
\* directory created, overwritten or removed.
C2_ConflictingRunWritesNothing ==
    ConflictingRun => (OutputUntouched /\ (pc = "done" => ret.err # NoErr))

\* C3: after a Debian Generate without signer, InRelease is Release byte for
\* byte, holds no PGP armor line, and there is no Release.gpg, whatever
\* earlier generations left in the output directory.
C3_UnsignedLeavesNoSignature ==
    (Generated(TypeDeb) /\ args.gpgSigner = NoSigner) =>
        /\ Exists(fs, DistsFile("InRelease"))
        /\ Read(fs, DistsFile("InRelease")) = Read(fs, DistsFile("Release"))
        /\ ArmorLines(Read(fs, DistsFile("InRelease"))) = {}
        /\ ~Exists(fs, DistsFile("Release.gpg"))

\* C4: after a Debian Generate with a signer, InRelease holds both armor
\* lines, and Release.gpg is a detached signature, by that signer, over the
\* Release file this call wrote.
C4_SignedReleaseIsSigned ==
    (Generated(TypeDeb) /\ args.gpgSigner # NoSigner) =>
        /\ Exists(fs, DistsFile("Release"))
        /\ Read(fs, DistsFile("Release")).Date = clock
        /\ Exists(fs, DistsFile("InRelease"))
        /\ {BeginSignedMessage, BeginSignature}
               \subseteq ArmorLines(Read(fs, DistsFile("InRelease")))
        /\ Read(fs, DistsFile("InRelease")).message = Read(fs, DistsFile("Release"))
        /\ Exists(fs, DistsFile("Release.gpg"))
        /\ Read(fs, DistsFile("Release.gpg"))
               = [kind |-> "signature", by |-> args.gpgSigner.id,
                  over |-> Read(fs, DistsFile("Release"))]

C4_Witness ==
    /\ Generated(TypeDeb)
    /\ args.gpgSigner # NoSigner
    /\ clock = 2
    /\ Exists(args.fs0, DistsFile("Release.gpg"))
    /\ Read(fs, DistsFile("Release.gpg")) # Read(args.fs0, DistsFile("Release.gpg"))
    /\ Read(fs, DistsFile("Release.gpg")).over = Read(fs, DistsFile("Release"))

\* what the run's configuration says about its keys
KeyLoads(keyPath) == NewSigner(args.fs0, keyPath).err = NoErr

KeyOf(keyPath) == NewSigner(args.fs0, keyPath).signer

GPGConfigured == args.config.GPGKeyPath # NoKey

RSAConfigured == args.config.RSAKeyPath # NoKey

UnloadableKey ==
    \/ GPGConfigured /\ ~KeyLoads(args.config.GPGKeyPath)
    \/ RSAConfigured /\ ~KeyLoads(args.config.RSAKeyPath)

\* the generator of a type asks the run's loaded key for a signature the key
\* cannot make
SigningFails(pkgType) ==
    CASE pkgType = TypeDeb ->
            GPGConfigured /\ ~(KeyOf(args.config.GPGKeyPath).detach
                                 /\ KeyOf(args.config.GPGKeyPath).clearsign)
      [] pkgType = TypeRpm -> GPGConfigured /\ ~KeyOf(args.config.GPGKeyPath).detach
      [] OTHER ->
            /\ RSAConfigured /\ ~KeyOf(args.config.RSAKeyPath).detach
            /\ \E i \in DOMAIN args.packagesByType[pkgType] :
                  ApkArch(args.packagesByType[pkgType][i]) \in Range(args.config.Arches)

IsSignatureOver(fsys, sigPath, dataPath, keyPath) ==
    /\ Exists(fsys, sigPath)
    /\ Exists(fsys, dataPath)
    /\ Read(fsys, sigPath) = [kind |-> "signature", by |-> KeyOf(keyPath).id,
                              over |-> Read(fsys, dataPath)]

\* the index a generator wrote carries the signature of the run's key
SignedIndex(pkgType) ==
    CASE pkgType = TypeDeb ->
            GPGConfigured =>
                /\ IsSignatureOver(fs, DistsFile("Release.gpg"), DistsFile("Release"),
                                   args.config.GPGKeyPath)
                /\ Read(fs, DistsFile("InRelease")).kind = "clearsigned"
                /\ Read(fs, DistsFile("InRelease")).message = Read(fs, DistsFile("Release"))
                /\ Read(fs, DistsFile("Release")).Date = clock
      [] pkgType = TypeRpm ->
            GPGConfigured =>
                \A i \in DOMAIN args.packagesByType[pkgType] :
                    LET pkg == args.packagesByType[pkgType][i]
                        repodata == Out \o <<getPackageVersion(args.config, pkg),
                                              RpmArch(pkg), "repodata">>
                    IN /\ IsSignatureOver(fs, repodata \o <<"repomd.xml.asc">>,
                                          repodata \o <<"repomd.xml">>,
                                          args.config.GPGKeyPath)
                       /\ Read(fs, repodata \o <<"repomd.xml">>).Revision = clock
      [] OTHER ->
            RSAConfigured =>
                \A i \in DOMAIN args.packagesByType[pkgType] :
                    LET arch == ApkArch(args.packagesByType[pkgType][i])
                    IN arch \in Range(args.config.Arches) =>
                          IsSignatureOver(fs,
                              Out \o <<arch, "APKINDEX.tar.gz.SIGN.RSA."
                                               \o args.config.RSAKeyName \o ".pub">>,
                              Out \o <<arch, "APKINDEX.tar.gz">>,
                              args.config.RSAKeyPath)

\* C5: with a signing key configured, a run whose key fails to load ends
\* in a Signing error with the output directory untouched by the run; a run
\* in which the generator of a package type found asks its key for a
\* signature the key cannot make ends in an error; and a run that ends in
\* success has every index it wrote signed, over the files of this run, by
\* the key configured for it.
C5_FailedSigningNeverSucceeds ==
    pc = "done" =>
        /\ (UnloadableKey /\ DOMAIN args.packagesByType # {}) =>
               (ret.err = ErrSigning /\ OutputUntouched)
        /\ \A pkgType \in DOMAIN args.packagesByType :
               /\ SigningFails(pkgType) => ret.err # NoErr
               /\ ret.err = NoErr => SignedIndex(pkgType)

C5_Witness ==
    /\ pc = "done"
    /\ args.config.GPGKeyPath = Keys \o <<"garbage">>
    /\ DOMAIN args.packagesByType # {}
    /\ ret.err = ErrSigning
    /\ Below(fs, Out) # {}
    /\ OutputUntouched

\* C10: after a successful generation every entry of the Debian Packages
\* indexes names a file that exists below the output directory with the
\* size and the MD5, SHA1 and SHA256 digests the entry records.
C10_IndexEntriesMatchFiles ==
    (pc = "done" /\ ret.err = NoErr /\ TypeDeb \in DOMAIN args.packagesByType) =>
        \A a \in DOMAIN args.config.Arches :
            LET index == Read(fs, Join(DebBinaryDir(args.config, "main",
                                                    args.config.Arches[a]),
                                       <<"Packages">>))
            IN \A i \in DOMAIN index.entries :
                  LET entry == index.entries[i]
                      sums == CalculateChecksums(fs, NoFaults,
                                                 Join(args.config.OutputDir, entry.Filename))
                  IN /\ sums.err = NoErr
                     /\ sums.Size = entry.Size
                     /\ sums.MD5 = entry.MD5sum
                     /\ sums.SHA1 = entry.SHA1
                     /\ sums.SHA256 = entry.SHA256

\* C6: after a generation from package A and the removal of A's file from
\* the output directory, Generate on ParseExistingMetadata's packages
\* followed by a new package B succeeds, copies B's file into the output
\* directory, and writes an index that lists both A and B -- for the
\* Debian, the RPM and the Alpine generator.
C6_MergedGenerationKeepsBoth ==
    (pc = "merged" /\ args.removed # {}) =>
        /\ ret.err = NoErr
        /\ \E p \in Below(fs, Out) : fs[p] = Read(fs, args.second)
        /\ LET listed == ParseExistingMetadata(args.pkgType, args.config, fs).packages
           IN {Read(fs, args.first).Name, Read(fs, args.second).Name}
                  \subseteq {listed[i].Name : i \in DOMAIN listed}

\* C11: every package ParseExistingMetadata returns, for every ecosystem,
\* has a Filename relative to the repository root: OutputDir joined with
\* the Filename is the path at which Generate placed the package's file.
C11_ExistingFilenameIsRootRelative ==
    (pc = "parsed" /\ args.removed = {} /\ ret.err = NoErr) =>
        /\ args.existing # <<>>
        /\ \A i \in DOMAIN args.existing :
               LET placed == Join(args.config.OutputDir, args.existing[i].Filename)
               IN /\ Exists(fs, placed)
                  /\ Read(fs, placed) = Read(fs, args.first)

\* the causes of a Generate that failed to copy a file or to write below the
\* output directory
IOFailures == {"not a directory", "failed to copy"}

\* the Generate of a type cannot copy or write on the disk as it is
IOFails(pkgType) ==
    \A outcome \in Generate(pkgType, args.config, args.packagesByType[pkgType],
                            args.gpgSigner, args.rsaSigner, fs, clock) :
        outcome.err \in IOFailures

\* the directories below the output directory the generator of a type
\* writes to
TypeArea(pkgType) ==
    LET packages == args.packagesByType[pkgType]
    IN CASE pkgType = TypeDeb -> {Out \o <<"pool">>, Out \o <<"dists">>}
         [] pkgType = TypeRpm ->
               {Out \o <<getPackageVersion(args.config, packages[i])>> :
                   i \in DOMAIN packages}
         [] OTHER -> {Out \o <<ApkArch(packages[i])>> : i \in DOMAIN packages}

\* the current run has written nothing for a type
NotGenerated(pkgType) ==
    \A dir \in TypeArea(pkgType) :
        /\ Below(fs, dir) = Below(args.fs0, dir)
        /\ \A p \in Below(fs, dir) : fs[p] = args.fs0[p]

\* the run has ended with the error of a Generate that could not copy or write
EndedInIOFailure ==
    /\ pc = "done"
    /\ ret.err = ErrMetadataGen
    /\ ret.cause \in IOFailures

\* C12 as claimed: when copying or writing output fails during the
\* generation of one ecosystem, every other ecosystem found in the same run
\* is still generated.
C12_OtherEcosystemsStillGenerated ==
    EndedInIOFailure =>
        \A pkgType \in DOMAIN args.packagesByType :
            IOFails(pkgType) \/ Generated(pkgType)

\* C12 as amended: when copying or writing output fails during the
\* generation of one ecosystem the run ends at once with a metadata
\* generation error and never in success; the ecosystems whose turn had not
\* come are not generated, the ones generated before keep their place.
C12_IOFailureEndsTheRun ==
    pc = "done" =>
        /\ ret.err = NoErr =>
               \A pkgType \in DOMAIN args.packagesByType : ~IOFails(pkgType)
        /\ EndedInIOFailure =>
               \E failed \in args.todo :
                   /\ IOFails(failed)
                   /\ \A pkgType \in args.todo \ {failed} : NotGenerated(pkgType)

C12_Witness ==
    /\ EndedInIOFailure
    /\ \E failed \in args.todo, other \in args.todo :
          /\ failed # other
          /\ IOFails(failed)
          /\ ~IOFails(other)
          /\ NotGenerated(other)

\* the package files the scan of the current run met, and the ones of them
\* that parse
ScannedFiles ==
    {p \in Below(args.fs0, args.config.InputDir) : IsPackageFile(args.fs0[p])}

ParsedFiles == {p \in ScannedFiles : ParseError(args.fs0, p) = NoErr}

\* C13: a scanned package file whose parsing fails is skipped and does not
\* stop the run: the run goes on past the scan, and the generator of each
\* ecosystem is handed exactly the packages of the files of its type that
\* parsed, each once, in scan order.
C13_UnparsedFileIsSkipped ==
    (pc \in {"signers", "generate", "done"} /\ ScannedFiles # {}) =>
        /\ pc = "done" => ret.err # ErrFileOp
        /\ \A p \in ParsedFiles :
               /\ DetectType(args.fs0[p]) \in DOMAIN args.packagesByType
               /\ \E i \in DOMAIN args.packagesByType[DetectType(args.fs0[p])] :
                      args.packagesByType[DetectType(args.fs0[p])][i]
                          = ParsePackage(args.fs0, p)
        /\ \A pkgType \in DOMAIN args.packagesByType :
               LET packages == args.packagesByType[pkgType]
               IN /\ packages # <<>>
                  /\ \A i \in DOMAIN packages :
                         /\ packages[i].Filename \in ParsedFiles
                         /\ DetectType(args.fs0[packages[i].Filename]) = pkgType
                  /\ \A i, j \in DOMAIN packages :
                         i < j => PathLess(packages[i].Filename, packages[j].Filename)

C13_Witness ==
    /\ pc = "generate"
    /\ args.todo = {}
    /\ TypeDeb \in DOMAIN args.packagesByType
    /\ Len(args.packagesByType[TypeDeb]) = 2
    /\ \E p \in ScannedFiles \ ParsedFiles :
          /\ PathLess(args.packagesByType[TypeDeb][1].Filename, p)
          /\ PathLess(p, args.packagesByType[TypeDeb][2].Filename)

\* the published index of a type was missing or unusable when the run started
NoExistingMetadata(pkgType) ==
    ParseExistingMetadata(pkgType, args.config, args.fs0).err # NoErr

\* the identities the index of a type lists now, with how often
ListedIdentities(pkgType) ==
    LET listed == ParseExistingMetadata(pkgType, args.config, fs).packages
    IN [id \in {PackageIdentity(listed[i], pkgType) : i \in DOMAIN listed} |->
           Cardinality({i \in DOMAIN listed : PackageIdentity(listed[i], pkgType) = id})]

ScannedIdentities(pkgType) ==
    LET packages == args.packagesByType[pkgType]
    IN [id \in {PackageIdentity(packages[i], pkgType) : i \in DOMAIN packages} |->
           Cardinality({i \in DOMAIN packages :
                           PackageIdentity(packages[i], pkgType) = id})]

EndedInInvalidConfig == pc = "done" /\ ret.err = ErrInvalidConfig

ReleasePath == Join(args.config.OutputDir, <<"dists", args.config.Codename, "Release">>)

\* the Packages and Packages.gz paths of the configured architectures and
\* components, relative to dists/<codename>
ConfiguredIndexes ==
    {<<args.config.Components[c], "binary-" \o args.config.Arches[a], name>> :
        c \in DOMAIN args.config.Components, a \in DOMAIN args.config.Arches,
        name \in {"Packages", "Packages.gz"}}

PacmanGenerated == pc = "pacman" /\ args # NoArgs /\ ret.err = NoErr

\* the architecture directories of the packages of the call
PacmanArchDirs ==
    {Join(args.config.OutputDir, <<PacmanArch(args.packages[i])>>) :
        i \in DOMAIN args.packages}

\* C17: after a successful generation of Pacman packages each architecture
\* directory holds <reponame>.db.tar.zst and <reponame>.db, the second a
\* file with the bytes of the first.
C17_DbIsCopyOfDbTarZst ==
    PacmanGenerated =>
        \A archDir \in PacmanArchDirs :
            LET dbTar == Join(archDir, <<PacmanDbName(args.config) \o ".db.tar.zst">>)
                db == Join(archDir, <<PacmanDbName(args.config) \o ".db">>)
            IN /\ Exists(fs, dbTar)
               /\ Exists(fs, db)
               /\ Read(fs, db) = Read(fs, dbTar)

\* the files a signed Pacman repository signs: the database and the package
\* files of the architecture directories of the call
PacmanSignedFiles ==
    {p \in Below(fs, args.config.OutputDir) :
        /\ Dir(p) \in PacmanArchDirs
        /\ ~HasSuffix(Base(p), ".sig")
        /\ \/ Base(p) = PacmanDbName(args.config) \o ".db.tar.zst"
           \/ \E i \in DOMAIN args.packages :
                  /\ Base(p) = Base(args.packages[i].Filename)
                  /\ Dir(p) = Join(args.config.OutputDir, <<PacmanArch(args.packages[i])>>)}

SigOf(p) == Dir(p) \o <<Base(p) \o ".sig">>

\* C18: a successful Pacman Generate with a signer leaves, next to the
\* database and next to every package file, a .sig file holding a binary
\* (not armored) detached signature of that file; without a signer it
\* writes no .sig file.
C18_SigFilesAreBinarySignatures ==
    PacmanGenerated =>
        IF args.signer # NoSigner
        THEN \A p \in PacmanSignedFiles :
                /\ Exists(fs, SigOf(p))
                /\ Read(fs, SigOf(p)).kind = "signature"
                /\ Read(fs, SigOf(p)).over = Read(fs, p)
                /\ ArmorLines(Read(fs, SigOf(p))) = {}
        ELSE \A p \in Below(fs, args.config.OutputDir) :
                HasSuffix(Base(p), ".sig") =>
                    (Exists(args.fs0, p) /\ Read(args.fs0, p) = Read(fs, p))

\* the fields of a package a Packages file keeps
DebIndexFields(pkg) ==
    [Name |-> pkg.Name, Version |-> pkg.Version, Architecture |-> pkg.Architecture,
     Filename |-> pkg.Filename, Size |-> pkg.Size, MD5Sum |-> pkg.MD5Sum,
     SHA1Sum |-> pkg.SHA1Sum, SHA256Sum |-> pkg.SHA256Sum,
     SHA512Sum |-> pkg.SHA512Sum, Description |-> pkg.Description]

\* C19: the packages parsed from the Packages file that GeneratePackagesFile
\* printed are the packages it was given, equal on name, version,
\* architecture, filename, size, the four checksums and description, for
\* every description parseControl produces.
C19_PackagesFileRoundTrip ==
    pc = "parsed" =>
        {DebIndexFields(ret.parsed[i]) : i \in DOMAIN ret.parsed}
            = {DebIndexFields(ret.packages[i]) : i \in DOMAIN ret.packages}

\* the fields of a package an APKINDEX keeps
ApkIndexFields(pkg) ==
    [Name |-> pkg.Name, Version |-> pkg.Version, Architecture |-> pkg.Architecture,
     Size |-> pkg.Size, Description |-> pkg.Description, SHA1Sum |-> pkg.SHA1Sum]

\* the base64 text of the raw bytes of the digests of ValidSHA1s
KnownBase64(sha1) ==
    IF sha1 = "da39a3ee5e6b4b0d3255bfef95601890afd80709" THEN "2jmj7l5rSw0yVb/vlWAYkK/YBwk="
    ELSE "L9ThxnotKPzthJ7hu3bnORuT6xI="

AllSHA1Valid == \A i \in DOMAIN args.packages : args.packages[i].SHA1Sum \in ValidSHA1s

\* C20: for packages with a valid hex SHA1 the APKINDEX is generated, its
\* C: lines are "Q1" and the base64 text of the raw digest bytes, and the
\* packages parsed from the APKINDEX.tar.gz are the packages given, in
\* order, with the same name, version, architecture, size, description and
\* hex SHA1.
C20_ApkIndexRoundTrip ==
    /\ (args.op = "apk.index" /\ AllSHA1Valid) => pc # "failed"
    /\ (args.op = "apk.index" /\ pc \in {"read", "parsed"}) =>
           SelectSeq(ScanLines(ret.archive.APKINDEX), LAMBDA line : Len(line) >= 2 /\ SubSeq(line, 1, 2) = "C:")
               = [i \in DOMAIN args.packages |->
                     "C:Q1" \o KnownBase64(args.packages[i].SHA1Sum)]
    /\ (args.op = "apk.index" /\ pc = "parsed") =>
           /\ ret.err = NoErr
           /\ [i \in DOMAIN ret.parsed |-> ApkIndexFields(ret.parsed[i])]
                  = [i \in DOMAIN args.packages |-> ApkIndexFields(args.packages[i])]

C20_Witness ==
    /\ args.op = "apk.index"
    /\ pc = "parsed"
    /\ Len(ret.parsed) = 2
    /\ ret.parsed[1].Description = "C:Q1 is the checksum: text"
    /\ ret.parsed[1].SHA1Sum # ret.parsed[2].SHA1Sum
    /\ "installed_size" \in DOMAIN args.packages[1].Metadata

\* the repomd.xml files on the disk
RepomdPaths ==
    {p \in DOMAIN fs : Base(p) = "repomd.xml" /\ fs[p].kind = "repomd.xml"}

\* C21: every repomd.xml names, by location and checksum, an existing file
\* <sha256>-primary.xml.gz of its directory whose SHA256 is the prefix of
\* its name and the recorded checksum, and its open-checksum is the SHA256
\* of the checksum string; this holds after every generation and
\* regeneration.
C21_RepomdNamesItsPrimary ==
    \A p \in RepomdPaths :
        LET primary == Join(Dir(Dir(p)), fs[p].Href)
        IN /\ Exists(fs, primary)
           /\ Dir(primary) = Dir(p)
           /\ Base(primary) = HexText(Hash("sha256", Read(fs, primary))) \o "-primary.xml.gz"
           /\ fs[p].Checksum = Hash("sha256", Read(fs, primary))
           /\ Read(fs, primary).kind = "gz"
           /\ fs[p].OpenChecksum = Hash("sha256", fs[p].Checksum)

\* a second successful run has left two primary files next to a repomd.xml
C21_Witness ==
    /\ pc = "done"
    /\ ret.err = NoErr
    /\ clock = 2
    /\ \E p \in RepomdPaths :
          Cardinality({q \in DOMAIN fs : Dir(q) = Dir(p)
                          /\ HasSuffix(Base(q), "-primary.xml.gz")}) = 2

\* the message lines as they are printed: "- " before a line that begins
\* with a dash
RECURSIVE EscapedLines(_)
EscapedLines(lines) ==
    IF lines = <<>> THEN ""
    ELSE (IF SubSeq(Head(lines)[1] \o Head(lines)[2] \o "x", 1, 1) = "-" THEN "- " ELSE "")
         \o Head(lines)[1] \o Head(lines)[2] \o Newline
         \o EscapedLines(Tail(lines))

\* the canonical form of the message: the texts of the lines without what
\* trails them, each ended by CR LF; a last line that is empty and not
\* ended is left out
RECURSIVE CanonicalLines(_, _)
CanonicalLines(lines, final) ==
    IF lines = <<>> THEN ""
    ELSE IF Len(lines) = 1 /\ ~final /\ Head(lines)[1] = "" THEN ""
    ELSE Head(lines)[1] \o CRLF \o CanonicalLines(Tail(lines), final)

\* the messages that differ from the signed one in trailing spaces and tabs
\* only
TrailingVariants ==
    {MessageText(lines, args.final) :
        lines \in {l \in [DOMAIN args.lines -> LineTexts \X Trailings] :
                      \A i \in DOMAIN l : l[i][1] = args.lines[i][1]}}

C23_CancelledScanAbortsTheRun ==
    (args.op = "runGeneration" /\ "ctxDoneAt" \in DOMAIN args /\ args.ctxDoneAt = "walk") =>
        /\ pc \in {"walk", "done"}
        /\ fs = args.fs0
        /\ args.packagesByType = <<>>
        /\ pc = "done" => /\ ret = Returned(ErrFileOp, ContextCanceled)
                          /\ args.scanned = <<>>

\* a run over the whole input tree that a cancelled context ended
C23_Witness ==
    /\ "ctxDoneAt" \in DOMAIN args
    /\ args.ctxDoneAt = "walk"
    /\ pc = "done"
    /\ ret.cause = ContextCanceled
    /\ args.config.InputDir = In

\* the ecosystems have run, or one of them has failed
EcosystemsDone == pc \in {"generated", "failed"} /\ args # NoArgs

WriteSetsDisjoint ==
    \A t, u \in DOMAIN args.written :
        t # u => args.written[t] \cap args.written[u] = {}

ListedPackages(fsys) ==
    UNION { LET c == fsys[p]
            IN CASE c.kind = "Packages" ->
                      {<<TypeDeb, c.entries[i].Package, c.entries[i].Version,
                         c.entries[i].Architecture>> : i \in DOMAIN c.entries}
                 [] c.kind = "APKINDEX.tar.gz" ->
                      {<<TypeApk, c.APKINDEX[i].P, c.APKINDEX[i].V, c.APKINDEX[i].A>> :
                          i \in DOMAIN c.APKINDEX}
                 [] c.kind = "gz" /\ c.of.kind = "primary.xml" ->
                      {<<TypeRpm, c.of.packages[i].Name, c.of.packages[i].Ver,
                         c.of.packages[i].Arch>> : i \in DOMAIN c.of.packages}
                 [] c.kind = "db.tar.zst" ->
                      {<<TypePacman, c.entries[i].desc.NAME, c.entries[i].desc.VERSION,
                         c.entries[i].desc.ARCH>> : i \in DOMAIN c.entries}
                 [] OTHER -> {}
            : p \in Below(fsys, Out) }

\* the packages handed to the generators of a run
PassedPackages ==
    UNION { {<<t, args.packagesByType[t][i].Name, args.packagesByType[t][i].Version,
               args.packagesByType[t][i].Architecture>> :
                i \in DOMAIN args.packagesByType[t]}
            : t \in DOMAIN args.packagesByType }

\* C25: after the Generate of every ecosystem has succeeded, every package
\* that was passed to a generator is listed in an index below the output
\* directory, whatever its architecture and whatever architectures are
\* configured.
C25_EveryPackageIsListed ==
    pc = "generated" => PassedPackages \subseteq ListedPackages(fs)

\* C26: extractControl reads the header at an offset of the file at most
\* once, whatever sizes the headers declare, and ends by returning the
\* control data or an error.
C26_EachHeaderReadOnce ==
    args.op = "extractControl" =>
        /\ \A i, j \in DOMAIN args.visited : i # j => args.visited[i] # args.visited[j]
        /\ pc = "returned" => ~HasPrefix(ret.err, "panic")

\* the place in the repository at which the apk and the pacman generator
\* put the file of a package
PublishedPlace(config, pkg) ==
    Join(config.OutputDir,
         <<IF pkg.Architecture = "" THEN "x86_64" ELSE pkg.Architecture,
           Base(pkg.Filename)>>)

\* C27: a package file whose source is the file at its destination has the
\* content it had, after a CopyFile onto itself that succeeded and after a
\* Generate that succeeded.
C27_FileInPlaceKeepsItsContent ==
    /\ (args.op = "CopyFile" /\ ret.err = NoErr /\ Resolve(args.src) = Resolve(args.dst)) =>
           Read(fs, args.dst) = Read(args.fs0, args.src)
    /\ (args.op = "Generate" /\ ret.err = NoErr) =>
           \A i \in DOMAIN args.packagesByType[args.pkgType] :
               LET pkg == args.packagesByType[args.pkgType][i]
               IN Resolve(pkg.Filename) = Resolve(PublishedPlace(args.config, pkg)) =>
                     Read(fs, pkg.Filename) = Read(args.fs0, pkg.Filename)

\* the identity tuple of a package in an ecosystem
IdentityTuple(pkg, pkgType) ==
    CASE pkgType \in {TypeDeb, TypeApk, TypePacman} ->
            <<pkg.Name, pkg.Version, pkg.Architecture>>
      [] pkgType = TypeRpm ->
            <<pkg.Name, pkg.Version,
              IF "Release" \in DOMAIN pkg.Metadata THEN pkg.Metadata["Release"] ELSE "1",
              pkg.Architecture>>
      [] OTHER -> <<pkg.Name, pkg.Version>>

\* C28: two packages of an ecosystem with the same PackageIdentity string
\* have the same identity tuple, and every package DetectConflicts reports
\* has the identity tuple of an existing package.
C28_IdentityIsInjective ==
    ret.op = "DetectConflicts" =>
        /\ \A i \in DOMAIN args.existing, j \in DOMAIN args.incoming :
               PackageIdentity(args.existing[i], args.pkgType)
                   = PackageIdentity(args.incoming[j], args.pkgType)
               => IdentityTuple(args.existing[i], args.pkgType)
                      = IdentityTuple(args.incoming[j], args.pkgType)
        /\ \A j \in DOMAIN ret.conflicts :
               \E i \in DOMAIN args.existing :
                   IdentityTuple(args.existing[i], args.pkgType)
                       = IdentityTuple(ret.conflicts[j], args.pkgType)

\* the <version>/<arch> directory into which the first generation of the
\* test put the first package
FirstRpmDir ==
    LET pkg == ParsePackage(fs, args.first)
    IN Join(args.config.OutputDir, <<getPackageVersion(args.config, pkg), RpmArch(pkg)>>)

\* C29: with no version configured, Generate groups every package that
\* ParseExistingMetadata read back under the <version>/<arch> directory it
\* was read from, and a generation that succeeds writes the index of that
\* directory with the package in it.
C29_RereadRpmStaysInItsVersionDir ==
    (pc \in {"parsed", "merged"} /\ args.pkgType = TypeRpm /\ args.config.Version = "") =>
        /\ \A i \in DOMAIN args.existing :
               Join(args.config.OutputDir,
                    <<getPackageVersion(args.config, args.existing[i]),
                      RpmArch(args.existing[i])>>) = FirstRpmDir
        /\ (pc = "merged" /\ ret.err = NoErr) =>
               LET reread == parsePrimaryXML(fs, FirstRpmDir)
               IN /\ reread.err = NoErr
                  /\ Read(fs, Join(FirstRpmDir, <<"repodata", "repomd.xml">>)).Revision
                         = clock
                  /\ \E i \in DOMAIN reread.packages :
                        reread.packages[i].Name = Read(fs, args.first).Name

\* C30: parseControl gives the package the name and the version of the one
\* line that names them, and Dependencies is the list of the items of the
\* Depends field, each once and in order, also when blank lines or lines
\* without a colon follow the field.
C30_DependenciesAreTheItemsOnce ==
    (pc = "parsed" /\ ret.op = "parseControl") =>
        /\ ret.pkg.Name = "foo"
        /\ ret.pkg.Version
               = (IF "Version: 1.0" \in Range(args.following) THEN "1.0" ELSE "")
        /\ ret.pkg.Dependencies = args.depends

====
